---- MODULE Spec2Model ----
(***************************************************************************)
(* Polyflux: the PredictionMarketOracleV2 contract (attested market data)  *)
(* and the PredictionDerivatives contract (leveraged positions) as one     *)
(* state machine.  Every external call is one atomic step: it either       *)
(* commits its writes or reverts with one error and writes nothing.        *)
(* lastCall records the most recent call and how it ended.  The functions  *)
(* that pay tokens out are also modelled step by step, with the token      *)
(* transfer in flight, for the claims about calls made during a transfer.  *)
(* The keeper service that feeds the oracle is modelled by its cycles,     *)
(* one step per awaited operation.                                         *)
(***************************************************************************)
EXTENDS Integers, Sequences, FiniteSets, TLC

VARIABLES
    now,                \* block.timestamp
    owner,              \* PredictionMarketOracleV2.owner
    markets,            \* PredictionMarketOracleV2.markets
    marketIds,          \* PredictionMarketOracleV2.marketIds
    marketExists,       \* PredictionMarketOracleV2.marketExists
    nextPositionId,     \* PredictionDerivatives.nextPositionId
    positions,          \* PredictionDerivatives.positions
    userPositions,      \* PredictionDerivatives.userPositions
    marketPositions,    \* PredictionDerivatives.marketPositions
    totalFeesCollected, \* PredictionDerivatives.totalFeesCollected
    engineOwner,        \* PredictionDerivatives.owner
    feeRecipient,       \* PredictionDerivatives.feeRecipient
    _status,            \* ReentrancyGuard._status of PredictionDerivatives
    frame,              \* the engine call that is waiting for a token transfer to return
    totalDeposited,     \* EchidnaTest.totalDeposited: collateral taken in by openPosition
    balanceOf,          \* collateralToken balances
    allowance,          \* collateralToken allowances granted to the engine
    cycles,             \* FdcKeeper: the runCycle invocations in progress
    intervalSet,        \* FdcKeeper.start: setInterval has scheduled the periodic runs
    lastCall            \* the last transaction: entrypoint, sender, arguments, outcome

oracleVars == <<owner, markets, marketIds, marketExists>>
adminVars == <<engineOwner, feeRecipient>>
callVars == <<_status, frame>>
engineVars == <<nextPositionId, positions, userPositions, marketPositions, totalFeesCollected,
                engineOwner, feeRecipient, _status, frame, totalDeposited>>
tokenVars == <<balanceOf, allowance>>
keeperVars == <<cycles, intervalSet>>
vars == <<now, owner, markets, marketIds, marketExists, nextPositionId, positions,
          userPositions, marketPositions, totalFeesCollected, engineOwner, feeRecipient,
          _status, frame, totalDeposited, balanceOf, allowance, cycles, intervalSet,
          lastCall>>

(***************************************************************************)
(* Bounds of the model                                                     *)
(***************************************************************************)
MaxTicks == 2           \* how many times the block time advances
MaxPositions == 3       \* how many positions are opened in one run
InitialBalance == 150000000   \* tokens minted to each account at set-up
StartTime == 1700000000 \* block time at deployment
MaxConcurrent == 2      \* how many keeper cycles run at the same time

(***************************************************************************)
(* Constants of the contracts                                              *)
(***************************************************************************)
MAX_PRICE_BPS == 10000
MIN_LIQUIDITY == 1000000000
RESOLUTION_THRESHOLD == 9900
MIN_PRICE_SUM == 9500
MAX_PRICE_SUM == 10500
BPS == 10000
MAX_LEVERAGE == 50000
MIN_LEVERAGE == 10000
MIN_COLLATERAL == 10000000
MAX_ORACLE_STALENESS == 3600
PROTOCOL_FEE_BPS == 10
LIQUIDATION_THRESHOLD == 8000
LIQUIDATION_REWARD == 500

\* Seconds by which one step of the chain advances the block time: one step
\* reaches the staleness limit exactly, two pass it.
TimeStep == MAX_ORACLE_STALENESS

POLYMARKET_API_PREFIX ==
    <<"h","t","t","p","s",":","/","/","c","l","o","b",".","p","o","l","y","m","a","r",
      "k","e","t",".","c","o","m","/","m","a","r","k","e","t","s">>

ZeroAddress == "0x0"
Engine == "engine"              \* address(this) of PredictionDerivatives
Accounts == {"alice", "bob"}    \* externally owned accounts; alice deploys
Deployer == "alice"
MarketIdSet == {"m1", "m2"}
Directions == {"LONG_YES", "LONG_NO", "SHORT_YES", "SHORT_NO"}

(***************************************************************************)
(* Records                                                                 *)
(***************************************************************************)
\* The value a Solidity mapping returns for a key never written.
EmptyMarketData ==
    [marketId |-> "", question |-> "", yesPrice |-> 0, noPrice |-> 0, volume |-> 0,
     liquidity |-> 0, timestamp |-> 0, fdcTimestamp |-> 0, votingRound |-> 0,
     submitter |-> ZeroAddress, resolved |-> FALSE, outcome |-> FALSE]

MarketDTO(m, q, y, n, v, l) ==
    [marketId |-> m, question |-> q, yesPrice |-> y, noPrice |-> n, volume |-> v,
     liquidity |-> l]

\* An IWeb2Json.Proof: the verifier's verdict on it, the attested request URL,
\* the round data and the decoded response body.
Proof(ok, u, round, ts, d) ==
    [valid |-> ok, url |-> u, votingRound |-> round, lowestUsedTimestamp |-> ts,
     dto |-> d]

\* What lastCall holds after a transaction: the entrypoint, msg.sender, the
\* arguments, the error it reverted with ("ok" when it committed) and the value
\* it returned (0 when it returns nothing).
Call(op, sender, arg, err, ret) ==
    [op |-> op, sender |-> sender, arg |-> arg, err |-> err, ret |-> ret]

(***************************************************************************)
(* PredictionMarketOracleV2                                                *)
(***************************************************************************)
_verifyProof(proof) == proof.valid

_isValidPolymarketUrl(url) ==
    IF Len(url) < Len(POLYMARKET_API_PREFIX)
    THEN FALSE
    ELSE \A i \in 1..Len(POLYMARKET_API_PREFIX) : url[i] = POLYMARKET_API_PREFIX[i]

\* A validation that bounds each price and forgets the bound on their sum.
_validateMarketData_NoSum(dto) ==
    IF dto.yesPrice > MAX_PRICE_BPS THEN "InvalidPrices"
    ELSE IF dto.noPrice > MAX_PRICE_BPS THEN "InvalidPrices"
    ELSE IF dto.liquidity < MIN_LIQUIDITY THEN "InsufficientLiquidity"
    ELSE "ok"

\* The error _validateMarketData reverts with, "ok" when it returns.
_validateMarketData(dto) ==
    IF dto.yesPrice > MAX_PRICE_BPS THEN "InvalidPrices"
    ELSE IF dto.noPrice > MAX_PRICE_BPS THEN "InvalidPrices"
    ELSE IF dto.yesPrice + dto.noPrice < MIN_PRICE_SUM
            \/ dto.yesPrice + dto.noPrice > MAX_PRICE_SUM THEN "InvalidPrices"
    ELSE IF dto.liquidity < MIN_LIQUIDITY THEN "InsufficientLiquidity"
    ELSE "ok"

\* The record _storeMarketData writes.
StoredMarketData(dto, proof, sender) ==
    [marketId |-> dto.marketId, question |-> dto.question, yesPrice |-> dto.yesPrice,
     noPrice |-> dto.noPrice, volume |-> dto.volume, liquidity |-> dto.liquidity,
     timestamp |-> now, fdcTimestamp |-> proof.lowestUsedTimestamp,
     votingRound |-> proof.votingRound, submitter |-> sender, resolved |-> FALSE,
     outcome |-> FALSE]

\* A store that appends the id to the index on every write.
_storeMarketData_AlwaysPush(dto, proof, sender) ==
    /\ markets' = [markets EXCEPT ![dto.marketId] = StoredMarketData(dto, proof, sender)]
    /\ marketIds' = Append(marketIds, dto.marketId)
    /\ marketExists' = [marketExists EXCEPT ![dto.marketId] = TRUE]

_storeMarketData(dto, proof, sender) ==
    /\ markets' = [markets EXCEPT ![dto.marketId] = StoredMarketData(dto, proof, sender)]
    /\ IF ~marketExists[dto.marketId]
       THEN /\ marketIds' = Append(marketIds, dto.marketId)
            /\ marketExists' = [marketExists EXCEPT ![dto.marketId] = TRUE]
       ELSE UNCHANGED <<marketIds, marketExists>>

\* An update that validates the payload before it looks at the attested URL.
updateMarketDataError_DataFirst(proof) ==
    IF ~_verifyProof(proof) THEN "InvalidProof"
    ELSE IF _validateMarketData(proof.dto) # "ok" THEN _validateMarketData(proof.dto)
    ELSE IF ~_isValidPolymarketUrl(proof.url) THEN "InvalidUrl"
    ELSE "ok"

\* The error updateMarketData(proof) ends with, "ok" when it commits.
updateMarketDataError(proof) ==
    IF ~_verifyProof(proof) THEN "InvalidProof"
    ELSE IF ~_isValidPolymarketUrl(proof.url) THEN "InvalidUrl"
    ELSE _validateMarketData(proof.dto)

updateMarketData(sender, proof) ==
    LET err == updateMarketDataError(proof) IN
    /\ lastCall' = Call("updateMarketData", sender, proof, err, 0)
    /\ IF err = "ok"
       THEN _storeMarketData(proof.dto, proof, sender) /\ UNCHANGED owner
       ELSE UNCHANGED oracleVars
    /\ UNCHANGED <<keeperVars, now, engineVars, tokenVars>>

\* An outcome read off the NO side of the payload.
ResolutionOutcome_FromNo(dto) == dto.noPrice < RESOLUTION_THRESHOLD

\* The outcome resolveMarketWithProof reads off the payload.
ResolutionOutcome(dto) == dto.yesPrice >= RESOLUTION_THRESHOLD

\* A resolution that marks the record and forgets to pin the prices.
ResolvedMarketData_PricesKept(data, outcome) ==
    [data EXCEPT !.resolved = TRUE, !.outcome = outcome]

\* The record after the writes of a resolution.
ResolvedMarketData(data, outcome) ==
    [data EXCEPT !.resolved = TRUE,
                 !.outcome = outcome,
                 !.yesPrice = IF outcome THEN MAX_PRICE_BPS ELSE 0,
                 !.noPrice = IF outcome THEN 0 ELSE MAX_PRICE_BPS]

\* A resolution that does not look at the resolved flag.
resolveMarketWithProofError_NoResolvedCheck(proof) ==
    IF ~_verifyProof(proof) THEN "InvalidProof"
    ELSE IF ~_isValidPolymarketUrl(proof.url) THEN "InvalidUrl"
    ELSE IF markets[proof.dto.marketId].timestamp = 0 THEN "MarketNotFound"
    ELSE IF ~(proof.dto.yesPrice >= RESOLUTION_THRESHOLD
              \/ proof.dto.noPrice >= RESOLUTION_THRESHOLD) THEN "InvalidPrices"
    ELSE "ok"

\* The error resolveMarketWithProof(proof) ends with, "ok" when it commits.
resolveMarketWithProofError(proof) ==
    IF ~_verifyProof(proof) THEN "InvalidProof"
    ELSE IF ~_isValidPolymarketUrl(proof.url) THEN "InvalidUrl"
    ELSE IF markets[proof.dto.marketId].timestamp = 0 THEN "MarketNotFound"
    ELSE IF markets[proof.dto.marketId].resolved THEN "MarketAlreadyResolved"
    ELSE IF ~(proof.dto.yesPrice >= RESOLUTION_THRESHOLD
              \/ proof.dto.noPrice >= RESOLUTION_THRESHOLD) THEN "InvalidPrices"
    ELSE "ok"

resolveMarketWithProof(sender, proof) ==
    LET err == resolveMarketWithProofError(proof)
        id == proof.dto.marketId
    IN
    /\ lastCall' = Call("resolveMarketWithProof", sender, proof, err, 0)
    /\ IF err = "ok"
       THEN markets' = [markets EXCEPT ![id] =
                [ResolvedMarketData(markets[id], ResolutionOutcome(proof.dto))
                    EXCEPT !.votingRound = proof.votingRound]]
       ELSE UNCHANGED markets
    /\ UNCHANGED <<keeperVars, now, owner, marketIds, marketExists, engineVars, tokenVars>>

\* An emergency resolution that does not look at the resolved flag.
emergencyResolveError_NoResolvedCheck(sender, marketId) ==
    IF sender # owner THEN "OnlyOwner"
    ELSE IF markets[marketId].timestamp = 0 THEN "MarketNotFound"
    ELSE "ok"

emergencyResolveError(sender, marketId) ==
    IF sender # owner THEN "OnlyOwner"
    ELSE IF markets[marketId].timestamp = 0 THEN "MarketNotFound"
    ELSE IF markets[marketId].resolved THEN "MarketAlreadyResolved"
    ELSE "ok"

emergencyResolve(sender, marketId, outcome) ==
    LET err == emergencyResolveError(sender, marketId) IN
    /\ lastCall' = Call("emergencyResolve", sender,
                     [marketId |-> marketId, outcome |-> outcome], err, 0)
    /\ IF err = "ok"
       THEN markets' = [markets EXCEPT ![marketId] =
                            ResolvedMarketData(markets[marketId], outcome)]
       ELSE UNCHANGED markets
    /\ UNCHANGED <<keeperVars, now, owner, marketIds, marketExists, engineVars, tokenVars>>

transferOwnershipError(sender, newOwner) ==
    IF sender # owner THEN "OnlyOwner"
    ELSE IF newOwner = ZeroAddress THEN "OnlyOwner"
    ELSE "ok"

transferOwnership(sender, newOwner) ==
    LET err == transferOwnershipError(sender, newOwner) IN
    /\ lastCall' = Call("transferOwnership", sender, [newOwner |-> newOwner], err, 0)
    /\ owner' = IF err = "ok" THEN newOwner ELSE owner
    /\ UNCHANGED <<keeperVars, now, markets, marketIds, marketExists, engineVars, tokenVars>>

\* Read surface of the oracle.
isMarketDataFresh(marketId, maxAge) ==
    IF markets[marketId].timestamp = 0
    THEN FALSE
    ELSE (now - markets[marketId].timestamp) <= maxAge

isMarketResolved(marketId) == markets[marketId].resolved

getMarketCount == Len(marketIds)

(***************************************************************************)
(* The chain: block time moves forward between transactions.               *)
(***************************************************************************)
AdvanceTime ==
    /\ now + TimeStep <= StartTime + MaxTicks * TimeStep
    /\ now' = now + TimeStep
    /\ lastCall' = Call("advanceTime", ZeroAddress, [by |-> TimeStep], "ok", 0)
    /\ UNCHANGED <<keeperVars, oracleVars, engineVars, tokenVars>>

(***************************************************************************)
(* The collateral token: a standard ERC20 used through SafeERC20.          *)
(***************************************************************************)
\* The error transferFrom(from, engine, amount) reverts with, "ok" when it moves
\* the tokens: the allowance is spent first, then the balance is debited.
transferFromError(from, amount) ==
    IF allowance[from] < amount THEN "ERC20InsufficientAllowance"
    ELSE IF balanceOf[from] < amount THEN "ERC20InsufficientBalance"
    ELSE "ok"

safeTransferFrom(from, amount) ==
    /\ balanceOf' = [balanceOf EXCEPT ![from] = @ - amount, ![Engine] = @ + amount]
    /\ allowance' = [allowance EXCEPT ![from] = @ - amount]

approve(sender, amount) ==
    /\ allowance' = [allowance EXCEPT ![sender] = amount]
    /\ lastCall' = Call("approve", sender, [amount |-> amount], "ok", 0)
    /\ UNCHANGED <<keeperVars, now, oracleVars, engineVars, balanceOf>>

(***************************************************************************)
(* PredictionDerivatives                                                   *)
(***************************************************************************)
\* ReentrancyGuard: the two values of _status.
NOT_ENTERED == "NOT_ENTERED"
ENTERED == "ENTERED"

\* No engine call is waiting for a transfer.
NoFrame == [active |-> FALSE]

\* The value the positions mapping returns for an id never written.
EmptyPosition ==
    [owner |-> ZeroAddress, marketId |-> "", direction |-> "LONG_YES", collateral |-> 0,
     leverage |-> 0, entryPrice |-> 0, size |-> 0, openTimestamp |-> 0,
     isOpen |-> FALSE, settled |-> FALSE]

\* floor(a * b / c) for a, b >= 0 and c > 0, computed without leaving 32 bits.
MulDiv(a, b, c) == (a \div c) * b + ((a % c) * b) \div c

_getDirectionalPrice(direction, yesPrice, noPrice) ==
    IF direction = "LONG_YES" \/ direction = "SHORT_NO" THEN yesPrice ELSE noPrice

\* modifier oracleFresh
oracleFresh(marketId) == isMarketDataFresh(marketId, MAX_ORACLE_STALENESS)

\* An entry price read without the zero check.
_getEntryPriceError_NoZeroCheck(marketId, direction) ==
    IF markets[marketId].timestamp = 0 THEN "MarketNotFound" ELSE "ok"

\* The error _getEntryPrice reverts with, "ok" when it returns a price.
_getEntryPriceError(marketId, direction) ==
    IF markets[marketId].timestamp = 0 THEN "MarketNotFound"
    ELSE IF ~(_getDirectionalPrice(direction, markets[marketId].yesPrice,
                                   markets[marketId].noPrice) > 0)
    THEN "Invalid oracle price"
    ELSE "ok"

_getEntryPrice(marketId, direction) ==
    _getDirectionalPrice(direction, markets[marketId].yesPrice, markets[marketId].noPrice)

\* A fee rounded up to the next token unit.
ProtocolFee_RoundUp(collateral) == (collateral * PROTOCOL_FEE_BPS + BPS - 1) \div BPS

ProtocolFee(collateral) == (collateral * PROTOCOL_FEE_BPS) \div BPS

\* A validation that does not ask the oracle whether the market is resolved.
openPositionValidation_NoResolvedCheck(marketId, direction, collateral, leverage) ==
    IF ~(collateral >= MIN_COLLATERAL) THEN "Collateral too low"
    ELSE IF ~(leverage >= MIN_LEVERAGE) THEN "Leverage too low"
    ELSE IF ~(leverage <= MAX_LEVERAGE) THEN "Leverage too high"
    ELSE _getEntryPriceError(marketId, direction)

\* A validation whose upper leverage bound is strict.
openPositionValidation_StrictMax(marketId, direction, collateral, leverage) ==
    IF ~(collateral >= MIN_COLLATERAL) THEN "Collateral too low"
    ELSE IF ~(leverage >= MIN_LEVERAGE) THEN "Leverage too low"
    ELSE IF ~(leverage < MAX_LEVERAGE) THEN "Leverage too high"
    ELSE IF isMarketResolved(marketId) THEN "Market already resolved"
    ELSE _getEntryPriceError(marketId, direction)

\* The require statements of openPosition's body, in order, up to the token transfer.
openPositionValidation(marketId, direction, collateral, leverage) ==
    IF ~(collateral >= MIN_COLLATERAL) THEN "Collateral too low"
    ELSE IF ~(leverage >= MIN_LEVERAGE) THEN "Leverage too low"
    ELSE IF ~(leverage <= MAX_LEVERAGE) THEN "Leverage too high"
    ELSE IF isMarketResolved(marketId) THEN "Market already resolved"
    ELSE _getEntryPriceError(marketId, direction)

\* An openPosition that validates its arguments before it asks for fresh data.
openPositionError_ValidationFirst(sender, marketId, direction, collateral, leverage) ==
    IF openPositionValidation(marketId, direction, collateral, leverage)
            \in {"Collateral too low", "Leverage too low", "Leverage too high"}
    THEN openPositionValidation(marketId, direction, collateral, leverage)
    ELSE IF ~oracleFresh(marketId) THEN "Oracle data stale"
    ELSE IF openPositionValidation(marketId, direction, collateral, leverage) # "ok"
    THEN openPositionValidation(marketId, direction, collateral, leverage)
    ELSE transferFromError(sender, collateral)

\* The error openPosition ends with, "ok" when it commits.
openPositionError(sender, marketId, direction, collateral, leverage) ==
    IF ~oracleFresh(marketId) THEN "Oracle data stale"
    ELSE IF openPositionValidation(marketId, direction, collateral, leverage) # "ok"
    THEN openPositionValidation(marketId, direction, collateral, leverage)
    ELSE transferFromError(sender, collateral)

\* A fee booked in percent while the position is charged basis points.
_processCollateral_PercentFee(sender, collateral) ==
    /\ safeTransferFrom(sender, collateral)
    /\ totalFeesCollected' = totalFeesCollected + (collateral * PROTOCOL_FEE_BPS) \div 100

_processCollateral(sender, collateral) ==
    /\ safeTransferFrom(sender, collateral)
    /\ totalFeesCollected' = totalFeesCollected + ProtocolFee(collateral)

\* A position whose size divides the leverage by BPS before it multiplies.
NewPosition_LeverageFirst(sender, marketId, direction, netCollateral, leverage, entryPrice) ==
    [owner |-> sender, marketId |-> marketId, direction |-> direction,
     collateral |-> netCollateral, leverage |-> leverage, entryPrice |-> entryPrice,
     size |-> netCollateral * (leverage \div BPS), openTimestamp |-> now,
     isOpen |-> TRUE, settled |-> FALSE]

\* The Position struct _createPosition stores.
NewPosition(sender, marketId, direction, netCollateral, leverage, entryPrice) ==
    [owner |-> sender, marketId |-> marketId, direction |-> direction,
     collateral |-> netCollateral, leverage |-> leverage, entryPrice |-> entryPrice,
     size |-> MulDiv(netCollateral, leverage, BPS), openTimestamp |-> now,
     isOpen |-> TRUE, settled |-> FALSE]

\* A creation that reuses the id when the sender already has a position: the
\* counter advances only with the sender's first position.
_createPosition_IdPerUser(sender, marketId, direction, netCollateral, leverage, entryPrice) ==
    /\ nextPositionId' = IF userPositions[sender] = <<>> THEN nextPositionId + 1
                         ELSE nextPositionId
    /\ positions' = [positions EXCEPT ![nextPositionId] =
           NewPosition(sender, marketId, direction, netCollateral, leverage, entryPrice)]
    /\ userPositions' = [userPositions EXCEPT ![sender] = Append(@, nextPositionId)]
    /\ marketPositions' = [marketPositions EXCEPT ![marketId] = Append(@, nextPositionId)]

_createPosition(sender, marketId, direction, netCollateral, leverage, entryPrice) ==
    /\ nextPositionId' = nextPositionId + 1
    /\ positions' = [positions EXCEPT ![nextPositionId] =
           NewPosition(sender, marketId, direction, netCollateral, leverage, entryPrice)]
    /\ userPositions' = [userPositions EXCEPT ![sender] = Append(@, nextPositionId)]
    /\ marketPositions' = [marketPositions EXCEPT ![marketId] = Append(@, nextPositionId)]

openPosition(sender, marketId, direction, collateral, leverage) ==
    LET err == openPositionError(sender, marketId, direction, collateral, leverage) IN
    /\ err = "ok" => nextPositionId <= MaxPositions
    /\ lastCall' = Call("openPosition", sender,
                     [marketId |-> marketId, direction |-> direction,
                      collateral |-> collateral, leverage |-> leverage],
                     err, IF err = "ok" THEN nextPositionId ELSE 0)
    /\ IF err = "ok"
       THEN /\ _processCollateral(sender, collateral)
            /\ totalDeposited' = totalDeposited + collateral
            /\ UNCHANGED <<adminVars, callVars>>
            /\ _createPosition(sender, marketId, direction,
                               collateral - ProtocolFee(collateral), leverage,
                               _getEntryPrice(marketId, direction))
       ELSE UNCHANGED <<engineVars, tokenVars>>
    /\ UNCHANGED <<keeperVars, now, oracleVars>>

\* The value of positions[positionId]: the stored struct, or the default value
\* for an id that was never assigned.
PositionAt(positionId) ==
    IF positionId \in DOMAIN positions THEN positions[positionId] ELSE EmptyPosition

\* The remainder of a * b by c for a, b >= 0 and c > 0, computed without leaving
\* 32 bits.
MulMod(a, b, c) == ((a % c) * b) % c

\* int256 division (a * b) / c for a >= 0, c > 0 and signed b: the quotient is
\* truncated toward zero.
SignedMulDiv(a, b, c) == IF b >= 0 THEN MulDiv(a, b, c) ELSE -MulDiv(a, -b, c)

\* A valuation whose division rounds a loss down, away from zero.
_calculatePnL_Floor(position, currentPrice) ==
    IF position.entryPrice = 0 THEN 0
    ELSE LET priceDiff ==
                 IF position.direction = "LONG_YES" \/ position.direction = "LONG_NO"
                 THEN currentPrice - position.entryPrice
                 ELSE position.entryPrice - currentPrice
         IN IF priceDiff >= 0
            THEN MulDiv(position.size, priceDiff, position.entryPrice)
            ELSE -(MulDiv(position.size, -priceDiff, position.entryPrice)
                   + (IF MulMod(position.size, -priceDiff, position.entryPrice) = 0
                      THEN 0 ELSE 1))

_calculatePnL(position, currentPrice) ==
    IF position.entryPrice = 0 THEN 0
    ELSE LET priceDiff ==
                 IF position.direction = "LONG_YES" \/ position.direction = "LONG_NO"
                 THEN currentPrice - position.entryPrice
                 ELSE position.entryPrice - currentPrice
         IN SignedMulDiv(position.size, priceDiff, position.entryPrice)

\* The error oracle.getLatestPrice(marketId) reverts with, "ok" when it returns.
getLatestPriceError(marketId) ==
    IF markets[marketId].timestamp = 0 THEN "MarketNotFound" ELSE "ok"

\* The directional price the engine reads for a position from oracle.getLatestPrice.
CurrentPrice(position) ==
    _getDirectionalPrice(position.direction, markets[position.marketId].yesPrice,
                         markets[position.marketId].noPrice)

\* payoutAmount: collateral + pnl when that is positive, else 0.
PayoutAmount(position, pnl) ==
    IF position.collateral + pnl > 0 THEN position.collateral + pnl ELSE 0

\* The error safeTransfer(to, amount) out of the engine reverts with.
safeTransferError(amount) ==
    IF balanceOf[Engine] < amount THEN "ERC20InsufficientBalance" ELSE "ok"

safeTransfer(to, amount) ==
    /\ balanceOf' = [balanceOf EXCEPT ![Engine] = @ - amount, ![to] = @ + amount]
    /\ UNCHANGED allowance

\* The error the view calculatePnL reverts with, "ok" when it returns.
calculatePnLError(positionId) ==
    IF ~PositionAt(positionId).isOpen THEN "Position not open"
    ELSE getLatestPriceError(PositionAt(positionId).marketId)

calculatePnL(positionId) ==
    _calculatePnL(PositionAt(positionId), CurrentPrice(PositionAt(positionId)))

\* A liquidation test that compares equity with the loss threshold itself.
isLiquidatable_LossThreshold(positionId) ==
    LET position == PositionAt(positionId) IN
    IF ~position.isOpen THEN FALSE
    ELSE position.collateral + calculatePnL(positionId)
            < MulDiv(position.collateral, LIQUIDATION_THRESHOLD, BPS)

isLiquidatable(positionId) ==
    LET position == PositionAt(positionId) IN
    IF ~position.isOpen THEN FALSE
    ELSE position.collateral + calculatePnL(positionId)
            < MulDiv(position.collateral, BPS - LIQUIDATION_THRESHOLD, BPS)

\* A close that skips the owner check.
closePositionError_NoOwnerCheck(sender, positionId) ==
    LET position == PositionAt(positionId) IN
    IF ~position.isOpen THEN "Position not open"
    ELSE IF getLatestPriceError(position.marketId) # "ok" THEN "MarketNotFound"
    ELSE safeTransferError(PayoutAmount(position, calculatePnL(positionId)))

\* A close that refuses a position that could be liquidated.
closePositionError_LiquidationCheck(sender, positionId) ==
    LET position == PositionAt(positionId) IN
    IF ~position.isOpen THEN "Position not open"
    ELSE IF position.owner # sender THEN "Not position owner"
    ELSE IF isLiquidatable(positionId) THEN "Position liquidatable"
    ELSE IF getLatestPriceError(position.marketId) # "ok" THEN "MarketNotFound"
    ELSE safeTransferError(PayoutAmount(position, calculatePnL(positionId)))

\* A close gated by the oracleFresh modifier, as openPosition is.
closePositionError_FreshOnly(sender, positionId) ==
    LET position == PositionAt(positionId) IN
    IF ~position.isOpen THEN "Position not open"
    ELSE IF ~oracleFresh(position.marketId) THEN "Oracle data stale"
    ELSE IF position.owner # sender THEN "Not position owner"
    ELSE IF getLatestPriceError(position.marketId) # "ok" THEN "MarketNotFound"
    ELSE safeTransferError(PayoutAmount(position, calculatePnL(positionId)))

\* The error closePosition ends with, "ok" when it commits.
closePositionError(sender, positionId) ==
    LET position == PositionAt(positionId) IN
    IF ~position.isOpen THEN "Position not open"
    ELSE IF position.owner # sender THEN "Not position owner"
    ELSE IF getLatestPriceError(position.marketId) # "ok" THEN "MarketNotFound"
    ELSE safeTransferError(PayoutAmount(position, calculatePnL(positionId)))

\* A close that marks the position settled when its market is resolved.
closePosition_MarksSettled(sender, positionId) ==
    LET err == closePositionError(sender, positionId)
        position == PositionAt(positionId)
        pnl == calculatePnL(positionId)
    IN
    /\ lastCall' = Call("closePosition", sender, [positionId |-> positionId], err,
                        IF err = "ok" THEN pnl ELSE 0)
    /\ IF err = "ok"
       THEN /\ positions' = [positions EXCEPT
                                ![positionId].isOpen = FALSE,
                                ![positionId].settled = isMarketResolved(position.marketId)]
            /\ safeTransfer(sender, PayoutAmount(position, pnl))
       ELSE UNCHANGED <<positions, tokenVars>>
    /\ UNCHANGED <<keeperVars, now, oracleVars, nextPositionId, userPositions, marketPositions,
                   totalFeesCollected, adminVars, callVars, totalDeposited>>

closePosition(sender, positionId) ==
    LET err == closePositionError(sender, positionId)
        position == PositionAt(positionId)
        pnl == calculatePnL(positionId)
    IN
    /\ lastCall' = Call("closePosition", sender, [positionId |-> positionId], err,
                        IF err = "ok" THEN pnl ELSE 0)
    /\ IF err = "ok"
       THEN /\ positions' = [positions EXCEPT ![positionId].isOpen = FALSE]
            /\ safeTransfer(sender, PayoutAmount(position, pnl))
       ELSE UNCHANGED <<positions, tokenVars>>
    /\ UNCHANGED <<keeperVars, now, oracleVars, nextPositionId, userPositions, marketPositions,
                   totalFeesCollected, adminVars, callVars, totalDeposited>>

\* reward: LIQUIDATION_REWARD basis points of the position's collateral.
LiquidationReward(position) == MulDiv(position.collateral, LIQUIDATION_REWARD, BPS)

\* A liquidation that does not ask whether the position is liquidatable.
liquidatePositionError_NoCheck(sender, positionId) ==
    LET position == PositionAt(positionId) IN
    IF ~position.isOpen THEN "Position not open"
    ELSE IF getLatestPriceError(position.marketId) # "ok" THEN "MarketNotFound"
    ELSE safeTransferError(LiquidationReward(position))

\* The error liquidatePosition ends with, "ok" when it commits.
liquidatePositionError(sender, positionId) ==
    LET position == PositionAt(positionId) IN
    IF ~position.isOpen THEN "Position not open"
    ELSE IF ~isLiquidatable(positionId) THEN "Not liquidatable"
    ELSE IF getLatestPriceError(position.marketId) # "ok" THEN "MarketNotFound"
    ELSE safeTransferError(LiquidationReward(position))

liquidatePosition(sender, positionId) ==
    LET err == liquidatePositionError(sender, positionId)
        position == PositionAt(positionId)
    IN
    /\ lastCall' = Call("liquidatePosition", sender, [positionId |-> positionId], err, 0)
    /\ IF err = "ok"
       THEN /\ positions' = [positions EXCEPT ![positionId].isOpen = FALSE]
            /\ safeTransfer(sender, LiquidationReward(position))
       ELSE UNCHANGED <<positions, tokenVars>>
    /\ UNCHANGED <<keeperVars, now, oracleVars, nextPositionId, userPositions, marketPositions,
                   totalFeesCollected, adminVars, callVars, totalDeposited>>

\* A settlement that looks only at the settled flag, not at isOpen.
settlePositionError_SettledOnly(sender, positionId) ==
    LET position == PositionAt(positionId) IN
    IF position.settled THEN "Already settled"
    ELSE IF position.marketId = "" \/ ~isMarketResolved(position.marketId)
    THEN "Market not resolved"
    ELSE safeTransferError(PayoutAmount(position, calculatePnL(positionId)))

\* A settlement that does not ask the oracle whether the market is resolved.
settlePositionError_NoResolvedCheck(sender, positionId) ==
    LET position == PositionAt(positionId) IN
    IF ~position.isOpen THEN "Position not open"
    ELSE IF position.settled THEN "Already settled"
    ELSE IF getLatestPriceError(position.marketId) # "ok" THEN "MarketNotFound"
    ELSE safeTransferError(PayoutAmount(position, calculatePnL(positionId)))

\* The error settlePosition ends with, "ok" when it commits.
settlePositionError(sender, positionId) ==
    LET position == PositionAt(positionId) IN
    IF ~position.isOpen THEN "Position not open"
    ELSE IF position.settled THEN "Already settled"
    ELSE IF ~isMarketResolved(position.marketId) THEN "Market not resolved"
    ELSE IF getLatestPriceError(position.marketId) # "ok" THEN "MarketNotFound"
    ELSE safeTransferError(PayoutAmount(position, calculatePnL(positionId)))

settlePosition(sender, positionId) ==
    LET err == settlePositionError(sender, positionId)
        position == PositionAt(positionId)
    IN
    /\ lastCall' = Call("settlePosition", sender, [positionId |-> positionId], err, 0)
    /\ IF err = "ok"
       THEN /\ positions' = [positions EXCEPT ![positionId].isOpen = FALSE,
                                              ![positionId].settled = TRUE]
            /\ safeTransfer(position.owner,
                            PayoutAmount(position, calculatePnL(positionId)))
       ELSE UNCHANGED <<positions, tokenVars>>
    /\ UNCHANGED <<keeperVars, now, oracleVars, nextPositionId, userPositions, marketPositions,
                   totalFeesCollected, adminVars, callVars, totalDeposited>>

\* A loop that settles and pays every index entry, closed or not.
RECURSIVE SettleLoop_NoSkip(_, _, _, _, _, _)
SettleLoop_NoSkip(positionIds, i, toSettle, yesPrice, noPrice, st) ==
    IF i > toSettle \/ st.err # "ok" THEN st
    ELSE LET positionId == positionIds[i]
             position == st.positions[positionId]
             exitPrice == _getDirectionalPrice(position.direction, yesPrice, noPrice)
             payoutAmount == PayoutAmount(position, _calculatePnL(position, exitPrice))
         IN IF st.balanceOf[Engine] < payoutAmount
            THEN [st EXCEPT !.err = "ERC20InsufficientBalance"]
            ELSE SettleLoop_NoSkip(positionIds, i + 1, toSettle, yesPrice, noPrice,
                     [positions |-> [st.positions EXCEPT ![positionId].isOpen = FALSE,
                                                         ![positionId].settled = TRUE],
                      balanceOf |-> [st.balanceOf EXCEPT
                                        ![Engine] = @ - payoutAmount,
                                        ![position.owner] = @ + payoutAmount],
                      settledCount |-> st.settledCount + 1,
                      err |-> "ok"])

\* The loop of settleMarketPositions from index i on, over the positions and
\* balances st the earlier iterations left: each open position among the first
\* toSettle entries is closed, marked settled and paid; a payout the engine
\* cannot cover ends the loop with the token's error.
RECURSIVE SettleLoop(_, _, _, _, _, _)
SettleLoop(positionIds, i, toSettle, yesPrice, noPrice, st) ==
    IF i > toSettle \/ st.err # "ok" THEN st
    ELSE LET positionId == positionIds[i]
             position == st.positions[positionId]
             exitPrice == _getDirectionalPrice(position.direction, yesPrice, noPrice)
             payoutAmount == PayoutAmount(position, _calculatePnL(position, exitPrice))
         IN IF ~position.isOpen \/ position.settled
            THEN SettleLoop(positionIds, i + 1, toSettle, yesPrice, noPrice, st)
            ELSE IF st.balanceOf[Engine] < payoutAmount
            THEN [st EXCEPT !.err = "ERC20InsufficientBalance"]
            ELSE SettleLoop(positionIds, i + 1, toSettle, yesPrice, noPrice,
                     [positions |-> [st.positions EXCEPT ![positionId].isOpen = FALSE,
                                                         ![positionId].settled = TRUE],
                      balanceOf |-> [st.balanceOf EXCEPT
                                        ![Engine] = @ - payoutAmount,
                                        ![position.owner] = @ + payoutAmount],
                      settledCount |-> st.settledCount + 1,
                      err |-> "ok"])

\* What settleMarketPositions leaves once the market is known to be resolved.
SettleMarketResult(marketId, maxPositions) ==
    SettleLoop(marketPositions[marketId], 1,
               IF Len(marketPositions[marketId]) < maxPositions
               THEN Len(marketPositions[marketId]) ELSE maxPositions,
               markets[marketId].yesPrice, markets[marketId].noPrice,
               [positions |-> positions, balanceOf |-> balanceOf, settledCount |-> 0,
                err |-> "ok"])

\* A batch settlement that does not ask the oracle whether the market is resolved.
settleMarketPositionsError_NoResolvedCheck(sender, marketId, maxPositions) ==
    IF getLatestPriceError(marketId) # "ok" THEN "MarketNotFound"
    ELSE SettleMarketResult(marketId, maxPositions).err

\* A batch that stops at the first payout the engine cannot cover and keeps the
\* settlements made before it.
settleMarketPositionsError_KeepPartial(sender, marketId, maxPositions) ==
    IF ~isMarketResolved(marketId) THEN "Market not resolved"
    ELSE getLatestPriceError(marketId)

\* The error settleMarketPositions ends with, "ok" when it commits.
settleMarketPositionsError(sender, marketId, maxPositions) ==
    IF ~isMarketResolved(marketId) THEN "Market not resolved"
    ELSE IF getLatestPriceError(marketId) # "ok" THEN "MarketNotFound"
    ELSE SettleMarketResult(marketId, maxPositions).err

settleMarketPositions(sender, marketId, maxPositions) ==
    LET err == settleMarketPositionsError(sender, marketId, maxPositions)
        result == SettleMarketResult(marketId, maxPositions)
    IN
    /\ lastCall' = Call("settleMarketPositions", sender,
                        [marketId |-> marketId, maxPositions |-> maxPositions], err,
                        IF err = "ok" THEN result.settledCount ELSE 0)
    /\ IF err = "ok"
       THEN /\ positions' = result.positions
            /\ balanceOf' = result.balanceOf
            /\ UNCHANGED allowance
       ELSE UNCHANGED <<positions, tokenVars>>
    /\ UNCHANGED <<keeperVars, now, oracleVars, nextPositionId, userPositions, marketPositions,
                   totalFeesCollected, adminVars, callVars, totalDeposited>>

\* modifier onlyOwner of PredictionDerivatives
onlyOwnerError(sender) == IF sender # engineOwner THEN "Only owner" ELSE "ok"

\* A fee withdrawal open to every caller.
withdrawFeesError_Anyone(sender) == safeTransferError(totalFeesCollected)

\* The error withdrawFees ends with, "ok" when it commits.
withdrawFeesError(sender) ==
    IF onlyOwnerError(sender) # "ok" THEN onlyOwnerError(sender)
    ELSE safeTransferError(totalFeesCollected)

withdrawFees(sender) ==
    LET err == withdrawFeesError(sender) IN
    /\ lastCall' = Call("withdrawFees", sender, [none |-> 0], err, 0)
    /\ IF err = "ok"
       THEN /\ totalFeesCollected' = 0
            /\ safeTransfer(feeRecipient, totalFeesCollected)
       ELSE UNCHANGED <<totalFeesCollected, tokenVars>>
    /\ UNCHANGED <<keeperVars, now, oracleVars, nextPositionId, positions, userPositions,
                   marketPositions, adminVars, callVars, totalDeposited>>

\* The error setFeeRecipient ends with, "ok" when it commits.
setFeeRecipientError(sender, newRecipient) ==
    IF onlyOwnerError(sender) # "ok" THEN onlyOwnerError(sender)
    ELSE IF newRecipient = ZeroAddress THEN "Invalid address"
    ELSE "ok"

setFeeRecipient(sender, newRecipient) ==
    LET err == setFeeRecipientError(sender, newRecipient) IN
    /\ lastCall' = Call("setFeeRecipient", sender, [newRecipient |-> newRecipient],
                        err, 0)
    /\ feeRecipient' = IF err = "ok" THEN newRecipient ELSE feeRecipient
    /\ UNCHANGED <<keeperVars, now, oracleVars, nextPositionId, positions, userPositions,
                   marketPositions, totalFeesCollected, engineOwner, callVars,
                   totalDeposited, tokenVars>>

\* The error PredictionDerivatives.transferOwnership ends with, "ok" when it commits.
engineTransferOwnershipError(sender, newOwner) ==
    IF onlyOwnerError(sender) # "ok" THEN onlyOwnerError(sender)
    ELSE IF newOwner = ZeroAddress THEN "Invalid address"
    ELSE "ok"

\* PredictionDerivatives.transferOwnership
engineTransferOwnership(sender, newOwner) ==
    LET err == engineTransferOwnershipError(sender, newOwner) IN
    /\ lastCall' = Call("engineTransferOwnership", sender, [newOwner |-> newOwner],
                        err, 0)
    /\ engineOwner' = IF err = "ok" THEN newOwner ELSE engineOwner
    /\ UNCHANGED <<keeperVars, now, oracleVars, nextPositionId, positions, userPositions,
                   marketPositions, totalFeesCollected, feeRecipient, callVars,
                   totalDeposited, tokenVars>>

(***************************************************************************)
(* The same functions step by step.  A call runs up to its next external   *)
(* token transfer and waits there in frame; while it waits, the recipient  *)
(* of the transfer may call back into the engine; when the transfer        *)
(* returns the call runs on to its next transfer or to its end.  A failed  *)
(* transfer reverts the whole transaction to the storage saved at entry.   *)
(***************************************************************************)
\* Engine and token storage, as a revert restores it.
Storage ==
    [nextPositionId |-> nextPositionId, positions |-> positions,
     userPositions |-> userPositions, marketPositions |-> marketPositions,
     totalFeesCollected |-> totalFeesCollected, engineOwner |-> engineOwner,
     feeRecipient |-> feeRecipient, totalDeposited |-> totalDeposited,
     balanceOf |-> balanceOf, allowance |-> allowance]

Revert(saved) ==
    /\ nextPositionId' = saved.nextPositionId
    /\ positions' = saved.positions
    /\ userPositions' = saved.userPositions
    /\ marketPositions' = saved.marketPositions
    /\ totalFeesCollected' = saved.totalFeesCollected
    /\ engineOwner' = saved.engineOwner
    /\ feeRecipient' = saved.feeRecipient
    /\ totalDeposited' = saved.totalDeposited
    /\ balanceOf' = saved.balanceOf
    /\ allowance' = saved.allowance

\* The loop of a function without a loop.
NoLoop == [positionIds |-> <<>>, i |-> 1, toSettle |-> 0, yesPrice |-> 0, noPrice |-> 0]

\* How far a function gets before it has to wait: the error it reverts with, or
\* the writes it has made and the transfer it is about to make (none when it
\* runs to its end), the value it will return, whether it holds the reentrancy
\* guard, and where its loop resumes.
Progress(err, pos, fees, transfer, to, amount, ret, guarded, loop) ==
    [err |-> err, positions |-> pos, totalFeesCollected |-> fees, transfer |-> transfer,
     to |-> to, amount |-> amount, ret |-> ret, guarded |-> guarded, loop |-> loop]

\* closePosition up to its transfer.
closePositionStart(sender, positionId) ==
    LET position == PositionAt(positionId)
        err == IF ~position.isOpen THEN "Position not open"
               ELSE IF position.owner # sender THEN "Not position owner"
               ELSE getLatestPriceError(position.marketId)
        pnl == calculatePnL(positionId)
        payoutAmount == PayoutAmount(position, pnl)
    IN IF err # "ok"
       THEN Progress(err, positions, totalFeesCollected, FALSE, ZeroAddress, 0, 0, TRUE,
                     NoLoop)
       ELSE Progress("ok", [positions EXCEPT ![positionId].isOpen = FALSE],
                     totalFeesCollected, payoutAmount > 0, sender, payoutAmount, pnl,
                     TRUE, NoLoop)

\* liquidatePosition up to its transfer.
liquidatePositionStart(sender, positionId) ==
    LET position == PositionAt(positionId)
        err == IF ~position.isOpen THEN "Position not open"
               ELSE IF ~isLiquidatable(positionId) THEN "Not liquidatable"
               ELSE getLatestPriceError(position.marketId)
        reward == LiquidationReward(position)
    IN IF err # "ok"
       THEN Progress(err, positions, totalFeesCollected, FALSE, ZeroAddress, 0, 0, TRUE,
                     NoLoop)
       ELSE Progress("ok", [positions EXCEPT ![positionId].isOpen = FALSE],
                     totalFeesCollected, reward > 0, sender, reward, 0, TRUE, NoLoop)

\* settlePosition up to its transfer.
settlePositionStart(sender, positionId) ==
    LET position == PositionAt(positionId)
        err == IF ~position.isOpen THEN "Position not open"
               ELSE IF position.settled THEN "Already settled"
               ELSE IF ~isMarketResolved(position.marketId) THEN "Market not resolved"
               ELSE getLatestPriceError(position.marketId)
        payoutAmount == PayoutAmount(position, calculatePnL(positionId))
    IN IF err # "ok"
       THEN Progress(err, positions, totalFeesCollected, FALSE, ZeroAddress, 0, 0, TRUE,
                     NoLoop)
       ELSE Progress("ok", [positions EXCEPT ![positionId].isOpen = FALSE,
                                             ![positionId].settled = TRUE],
                     totalFeesCollected, payoutAmount > 0, position.owner, payoutAmount,
                     0, TRUE, NoLoop)

\* The loop of settleMarketPositions from index loop.i on, over the positions pos,
\* up to the next transfer: closed and settled entries are passed over, an open
\* one is closed and marked settled, and the loop waits when it has to pay.
RECURSIVE LoopToTransfer(_, _, _)
LoopToTransfer(loop, pos, settledCount) ==
    IF loop.i > loop.toSettle
    THEN Progress("ok", pos, totalFeesCollected, FALSE, ZeroAddress, 0, settledCount,
                  TRUE, loop)
    ELSE LET positionId == loop.positionIds[loop.i]
             position == pos[positionId]
             exitPrice == _getDirectionalPrice(position.direction, loop.yesPrice,
                                               loop.noPrice)
             payoutAmount == PayoutAmount(position, _calculatePnL(position, exitPrice))
             marked == [pos EXCEPT ![positionId].isOpen = FALSE,
                                   ![positionId].settled = TRUE]
             rest == [loop EXCEPT !.i = @ + 1]
         IN IF ~position.isOpen \/ position.settled
            THEN LoopToTransfer(rest, pos, settledCount)
            ELSE IF payoutAmount > 0
            THEN Progress("ok", marked, totalFeesCollected, TRUE, position.owner,
                          payoutAmount, settledCount + 1, TRUE, rest)
            ELSE LoopToTransfer(rest, marked, settledCount + 1)

\* settleMarketPositions up to its first transfer.
settleMarketPositionsStart(sender, marketId, maxPositions) ==
    LET err == IF ~isMarketResolved(marketId) THEN "Market not resolved"
               ELSE getLatestPriceError(marketId)
        positionIds == marketPositions[marketId]
        toSettle == IF Len(positionIds) < maxPositions THEN Len(positionIds)
                    ELSE maxPositions
    IN IF err # "ok"
       THEN Progress(err, positions, totalFeesCollected, FALSE, ZeroAddress, 0, 0, TRUE,
                     NoLoop)
       ELSE LoopToTransfer([positionIds |-> positionIds, i |-> 1, toSettle |-> toSettle,
                            yesPrice |-> markets[marketId].yesPrice,
                            noPrice |-> markets[marketId].noPrice], positions, 0)

\* withdrawFees up to its transfer; the function carries no reentrancy guard.
withdrawFeesStart(sender) ==
    IF onlyOwnerError(sender) # "ok"
    THEN Progress(onlyOwnerError(sender), positions, totalFeesCollected, FALSE,
                  ZeroAddress, 0, 0, FALSE, NoLoop)
    ELSE Progress("ok", positions, 0, TRUE, feeRecipient, totalFeesCollected, 0, FALSE,
                  NoLoop)

\* How far the call op(arg) by sender gets.
Start(op, sender, arg) ==
    IF op = "closePosition" THEN closePositionStart(sender, arg.positionId)
    ELSE IF op = "liquidatePosition" THEN liquidatePositionStart(sender, arg.positionId)
    ELSE IF op = "settlePosition" THEN settlePositionStart(sender, arg.positionId)
    ELSE IF op = "settleMarketPositions"
    THEN settleMarketPositionsStart(sender, arg.marketId, arg.maxPositions)
    ELSE withdrawFeesStart(sender)

\* The call waits in collateralToken.safeTransfer(to, amount).
Waiting(op, sender, arg, progress, saved) ==
    [active |-> TRUE, op |-> op, sender |-> sender, arg |-> arg, to |-> progress.to,
     amount |-> progress.amount, ret |-> progress.ret, guarded |-> progress.guarded,
     loop |-> progress.loop, saved |-> saved]

\* The engine moves on with a call as far as progress says: it reverts, waits in
\* a transfer, or ends.
Advance(op, sender, arg, progress, saved) ==
    /\ positions' = progress.positions
    /\ totalFeesCollected' = progress.totalFeesCollected
    /\ IF progress.transfer
       THEN /\ frame' = Waiting(op, sender, arg, progress, saved)
            /\ _status' = IF progress.guarded THEN ENTERED ELSE _status
            /\ UNCHANGED lastCall
       ELSE /\ frame' = NoFrame
            /\ _status' = NOT_ENTERED
            /\ lastCall' = Call(op, sender, arg, progress.err, progress.ret)

\* A transaction calls op(arg) on the engine.
Enter(op, sender, arg) ==
    /\ ~frame.active
    /\ Advance(op, sender, arg, Start(op, sender, arg), Storage)
    /\ UNCHANGED <<keeperVars, now, oracleVars, nextPositionId, userPositions, marketPositions,
                   adminVars, totalDeposited, tokenVars>>

\* The transfer the call waits in returns: it has moved the tokens, or it has
\* failed and takes the whole transaction with it; the call then runs on.
TransferReturn ==
    /\ frame.active
    /\ IF balanceOf[Engine] < frame.amount
       THEN /\ Revert(frame.saved)
            /\ frame' = NoFrame
            /\ _status' = NOT_ENTERED
            /\ lastCall' = Call(frame.op, frame.sender, frame.arg,
                                "ERC20InsufficientBalance", 0)
       ELSE /\ safeTransfer(frame.to, frame.amount)
            /\ Advance(frame.op, frame.sender, frame.arg,
                       [LoopToTransfer(frame.loop, positions, frame.ret)
                            EXCEPT !.guarded = frame.guarded],
                       frame.saved)
            /\ UNCHANGED <<nextPositionId, userPositions, marketPositions, adminVars,
                           totalDeposited>>
    /\ UNCHANGED <<keeperVars, now, oracleVars>>

\* modifier nonReentrant around a call made while another call waits: the call
\* reverts when the guard is held and runs otherwise.
nonReentrant(op, sender, arg, call) ==
    IF _status = ENTERED
    THEN /\ lastCall' = Call(op, sender, arg, "ReentrancyGuardReentrantCall", 0)
         /\ UNCHANGED <<keeperVars, now, oracleVars, engineVars, tokenVars>>
    ELSE call

(***************************************************************************)
(* FdcKeeper: the state of the service                                     *)
(***************************************************************************)
\* config.maxMarketsPerCycle and config.maxStalenessSeconds
maxMarketsPerCycle == 10
maxStalenessSeconds == 3600

\* The runCycle invocations the model lets be in progress at the same time.
Slots == 1..MaxConcurrent

\* A slot no invocation of runCycle uses.
IdleCycle == [pc |-> "idle", todo |-> <<>>, i |-> 0, ok |-> 0, failed |-> 0,
              waiting |-> FALSE]

(***************************************************************************)
(* Initial state: both contracts deployed by the same account, the token   *)
(* minted to every account, nothing approved yet.                          *)
(***************************************************************************)
Init ==
    /\ now = StartTime
    /\ owner = Deployer
    /\ markets = [m \in MarketIdSet |-> EmptyMarketData]
    /\ marketIds = <<>>
    /\ marketExists = [m \in MarketIdSet |-> FALSE]
    /\ nextPositionId = 1
    /\ positions = [i \in 1..MaxPositions |-> EmptyPosition]
    /\ userPositions = [a \in Accounts |-> <<>>]
    /\ marketPositions = [m \in MarketIdSet |-> <<>>]
    /\ totalFeesCollected = 0
    /\ engineOwner = Deployer
    /\ feeRecipient = Deployer
    /\ _status = NOT_ENTERED
    /\ frame = NoFrame
    /\ totalDeposited = 0
    /\ cycles = [c \in Slots |-> IdleCycle]
    /\ intervalSet = FALSE
    /\ balanceOf = [a \in Accounts \cup {Engine} |->
                        IF a = Engine THEN 0 ELSE InitialBalance]
    /\ allowance = [a \in Accounts |-> 0]
    /\ lastCall = Call("constructor", Deployer, [none |-> 0], "ok", 0)

(***************************************************************************)
(* Inputs                                                                  *)
(***************************************************************************)
UrlMarket == POLYMARKET_API_PREFIX \o <<"/", "0", "x", "1">>
UrlExact == POLYMARKET_API_PREFIX
UrlShort == SubSeq(POLYMARKET_API_PREFIX, 1, Len(POLYMARKET_API_PREFIX) - 1)
UrlLastDiffers ==
    SubSeq(POLYMARKET_API_PREFIX, 1, Len(POLYMARKET_API_PREFIX) - 1) \o <<"z", "/", "1">>
UrlGamma ==
    SubSeq(POLYMARKET_API_PREFIX, 1, 8) \o <<"g", "a", "m", "m", "a", "-", "a", "p", "i">>
        \o SubSeq(POLYMARKET_API_PREFIX, 13, Len(POLYMARKET_API_PREFIX))
Urls == {UrlMarket, UrlExact, UrlShort, UrlLastDiffers, UrlGamma}

\* Price pairs a payload may carry: inside the accepted band, on its edges, outside
\* it, and at or beyond the resolution threshold.
PricePairs ==
    {<<6500, 3500>>, <<5000, 4500>>, <<10000, 500>>, <<0, 10000>>, <<9900, 100>>,
     <<100, 9900>>, <<9899, 101>>, <<5000, 4499>>, <<10000, 501>>, <<10001, 0>>,
     <<0, 10001>>, <<10000, 10000>>, <<0, 0>>}
Liquidities == {0, MIN_LIQUIDITY - 1, MIN_LIQUIDITY, MIN_LIQUIDITY + 1}

\* Every proof over the inputs above: what the claims about a call's outcome
\* range over.
AllProofs ==
    {Proof(ok, u, 7, StartTime, MarketDTO(m, "q1", pp[1], pp[2], 5, l)) :
        ok \in BOOLEAN, u \in Urls, m \in MarketIdSet, pp \in PricePairs,
        l \in Liquidities}

GoodProof(round, m, q, y, n, v, l) ==
    Proof(TRUE, UrlMarket, round, StartTime, MarketDTO(m, q, y, n, v, l))

\* The proofs the oracle is driven with.
OracleProofs ==
    {GoodProof(7, "m1", "q1", 6500, 3500, 5, MIN_LIQUIDITY),
     GoodProof(8, "m1", "q1b", 5000, 4500, 6, MIN_LIQUIDITY + 1),
     GoodProof(7, "m1", "q1", 0, 10000, 5, MIN_LIQUIDITY),
     GoodProof(9, "m1", "q1r", 9900, 100, 9, MIN_LIQUIDITY),
     GoodProof(9, "m1", "q1r", 100, 9900, 9, 0),
     GoodProof(9, "m1", "q1r", 10000, 10000, 9, 0),
     GoodProof(9, "m1", "q1r", 9899, 101, 9, MIN_LIQUIDITY),
     GoodProof(7, "m1", "q1", 10000, 501, 5, MIN_LIQUIDITY),
     GoodProof(7, "m1", "q1", 0, 10001, 5, 0),
     GoodProof(7, "m1", "q1", 6500, 3500, 5, MIN_LIQUIDITY - 1),
     Proof(TRUE, UrlExact, 7, StartTime,
           MarketDTO("m2", "q2", 10000, 500, 1, MIN_LIQUIDITY)),
     Proof(FALSE, UrlMarket, 7, StartTime,
           MarketDTO("m1", "q1", 6500, 3500, 5, MIN_LIQUIDITY)),
     Proof(FALSE, UrlGamma, 9, StartTime,
           MarketDTO("m2", "q2", 10001, 9900, 1, 0)),
     Proof(TRUE, UrlGamma, 9, StartTime,
           MarketDTO("m1", "q1", 9900, 100, 5, MIN_LIQUIDITY)),
     Proof(TRUE, UrlShort, 7, StartTime,
           MarketDTO("m2", "q2", 10001, 0, 1, 0)),
     Proof(TRUE, UrlLastDiffers, 7, StartTime,
           MarketDTO("m1", "q1", 6500, 3500, 5, MIN_LIQUIDITY))}

\* The account that runs the keeper: not the owner of either contract.
Keepers == {"bob"}

(***************************************************************************)
(* The oracle on its own: the keeper submits proofs, any account tries the *)
(* emergency path, time passes.                                            *)
(***************************************************************************)
OracleNext ==
    \/ \E a \in Keepers, p \in OracleProofs : updateMarketData(a, p)
    \/ \E a \in Keepers, p \in OracleProofs : resolveMarketWithProof(a, p)
    \/ \E a \in Accounts, m \in MarketIdSet, o \in BOOLEAN : emergencyResolve(a, m, o)
    \/ AdvanceTime

OracleSpec == Init /\ [][OracleNext]_vars

(***************************************************************************)
(* The engine over the oracle: the keeper feeds and resolves market m1,    *)
(* market m2 is never written; alice approves the engine and both accounts *)
(* call openPosition.                                                      *)
(***************************************************************************)
OpenProofs ==
    {GoodProof(7, "m1", "q1", 6500, 3500, 5, MIN_LIQUIDITY),
     GoodProof(9, "m1", "q1", 0, 10000, 5, MIN_LIQUIDITY)}

\* openPosition calls: <<sender, marketId, direction, collateral, leverage>>.
OpenCalls ==
    {<<"alice", "m1", "LONG_YES", 100000000, 20000>>,
     <<"alice", "m1", "LONG_NO", 60000999, MIN_LEVERAGE + 1>>,
     <<"alice", "m1", "SHORT_YES", 100000000, MAX_LEVERAGE>>,
     <<"bob", "m1", "SHORT_NO", 100000000, 20000>>,
     <<"alice", "m1", "LONG_YES", MIN_COLLATERAL - 1, 20000>>,
     <<"alice", "m1", "LONG_YES", MIN_COLLATERAL, MIN_LEVERAGE - 1>>,
     <<"alice", "m1", "LONG_NO", MIN_COLLATERAL, MAX_LEVERAGE + 1>>,
     <<"bob", "m1", "SHORT_YES", 0, 0>>,
     <<"alice", "m2", "LONG_YES", 100000000, 20000>>,
     <<"bob", "m2", "SHORT_NO", 0, MAX_LEVERAGE + 1>>}

OpenNext ==
    \/ \E a \in Keepers, p \in OpenProofs : updateMarketData(a, p)
    \/ \E a \in Keepers, p \in OpenProofs : resolveMarketWithProof(a, p)
    \/ approve(Deployer, InitialBalance)
    \/ \E c \in OpenCalls : openPosition(c[1], c[2], c[3], c[4], c[5])
    \/ AdvanceTime

OpenSpec == Init /\ [][OpenNext]_vars

(***************************************************************************)
(* The life of positions: the keeper moves and resolves the price of       *)
(* market m1, both accounts open positions, and any account closes,        *)
(* liquidates and settles them, one by one or in a batch.                  *)
(***************************************************************************)
LifeUpdates ==
    {GoodProof(7, "m1", "q1", 6500, 3500, 5, MIN_LIQUIDITY),
     GoodProof(7, "m1", "q1", 5000, 4500, 5, MIN_LIQUIDITY)}

LifeResolutions == {GoodProof(7, "m1", "q1", 100, 9900, 5, MIN_LIQUIDITY)}

\* openPosition calls: <<sender, marketId, direction, collateral, leverage>>.
LifeCalls ==
    {<<"alice", "m1", "LONG_YES", 80000999, 35001>>,
     <<"bob", "m1", "SHORT_NO", 78000000, MIN_LEVERAGE>>}

\* Position ids the calls name.
LifeIds == 1..MaxPositions

LifeNext ==
    \/ \E a \in Keepers, p \in LifeUpdates : updateMarketData(a, p)
    \/ \E a \in Keepers, p \in LifeResolutions : resolveMarketWithProof(a, p)
    \/ \E c \in LifeCalls : openPosition(c[1], c[2], c[3], c[4], c[5])
    \/ \E a \in Accounts, i \in LifeIds : closePosition(a, i)
    \/ \E a \in Accounts, i \in LifeIds : liquidatePosition(a, i)
    \/ \E i \in LifeIds : settlePosition(Deployer, i)
    \/ \E a \in Keepers, k \in 0..MaxPositions : settleMarketPositions(a, "m1", k)

\* The state the repository's test fixture sets up: the contracts deployed, the
\* token minted to every account and the engine approved by each of them.
LifeInit ==
    /\ now = StartTime
    /\ owner = Deployer
    /\ markets = [m \in MarketIdSet |-> EmptyMarketData]
    /\ marketIds = <<>>
    /\ marketExists = [m \in MarketIdSet |-> FALSE]
    /\ nextPositionId = 1
    /\ positions = [i \in 1..MaxPositions |-> EmptyPosition]
    /\ userPositions = [a \in Accounts |-> <<>>]
    /\ marketPositions = [m \in MarketIdSet |-> <<>>]
    /\ totalFeesCollected = 0
    /\ engineOwner = Deployer
    /\ feeRecipient = Deployer
    /\ _status = NOT_ENTERED
    /\ frame = NoFrame
    /\ totalDeposited = 0
    /\ cycles = [c \in Slots |-> IdleCycle]
    /\ intervalSet = FALSE
    /\ balanceOf = [a \in Accounts \cup {Engine} |->
                        IF a = Engine THEN 0 ELSE InitialBalance]
    /\ allowance = [a \in Accounts |-> InitialBalance]
    /\ lastCall = Call("approve", Deployer, [amount |-> InitialBalance], "ok", 0)

LifeSpec == LifeInit /\ [][LifeNext]_vars

(***************************************************************************)
(* The pool: alice opens up to three positions on market m1, all paid from *)
(* the engine's one token balance; the market resolves NO; positions are   *)
(* closed, liquidated and settled one by one or in batches, and both       *)
(* accounts try to withdraw the fees.                                      *)
(***************************************************************************)
PoolUpdates == {GoodProof(7, "m1", "q1", 6500, 3500, 5, MIN_LIQUIDITY)}

\* openPosition calls: <<sender, marketId, direction, collateral, leverage>>.  The
\* leverage of the long is such that its payout after a NO resolution takes all
\* but a remainder smaller than the fees out of a pool of three deposits.
PoolCalls ==
    {<<"alice", "m1", "LONG_NO", 50000000, 10780>>,
     <<"alice", "m1", "SHORT_YES", 50000000, MIN_LEVERAGE>>}

PoolIds == 1..MaxPositions

PoolNext ==
    \/ \E a \in Keepers, p \in PoolUpdates : updateMarketData(a, p)
    \/ \E a \in Keepers, p \in LifeResolutions : resolveMarketWithProof(a, p)
    \/ \E c \in PoolCalls : openPosition(c[1], c[2], c[3], c[4], c[5])
    \/ \E i \in PoolIds : closePosition(Deployer, i)
    \/ \E a \in Keepers, i \in PoolIds : liquidatePosition(a, i)
    \/ \E a \in Keepers, i \in PoolIds : settlePosition(a, i)
    \/ \E a \in Keepers, k \in 0..MaxPositions : settleMarketPositions(a, "m1", k)
    \/ \E a \in Accounts : withdrawFees(a)

PoolSpec == LifeInit /\ [][PoolNext]_vars

(***************************************************************************)
(* The owner functions of the engine: both accounts open positions on      *)
(* market m1 and call withdrawFees, setFeeRecipient and transferOwnership  *)
(* with each other's address and with the zero address.                    *)
(***************************************************************************)
AdminCalls ==
    {<<"alice", "m1", "LONG_NO", 50000000, MIN_LEVERAGE>>,
     <<"bob", "m1", "LONG_YES", 78000000, MIN_LEVERAGE>>}

AdminNext ==
    \/ \E a \in Keepers, p \in PoolUpdates : updateMarketData(a, p)
    \/ \E c \in AdminCalls : openPosition(c[1], c[2], c[3], c[4], c[5])
    \/ \E a \in Accounts : withdrawFees(a)
    \/ \E a \in Accounts, r \in Accounts \cup {ZeroAddress} : setFeeRecipient(a, r)
    \/ \E a \in Accounts, n \in Accounts \cup {ZeroAddress} :
            engineTransferOwnership(a, n)

AdminSpec == LifeInit /\ [][AdminNext]_vars

(***************************************************************************)
(* Calls with their transfers in flight: alice, who owns the engine, opens *)
(* positions on market m1; the market resolves YES; positions are closed,  *)
(* liquidated and settled and the fees withdrawn step by step, and while   *)
(* a transfer is in flight its recipient calls back into the engine.       *)
(***************************************************************************)
ReentryResolutions == {GoodProof(7, "m1", "q1", 9900, 100, 5, MIN_LIQUIDITY)}

\* openPosition calls: <<sender, marketId, direction, collateral, leverage>>.
ReentryCalls ==
    {<<"alice", "m1", "SHORT_YES", 75000000, MIN_LEVERAGE>>,
     <<"alice", "m1", "LONG_NO", 75000000, MIN_LEVERAGE>>}

\* The recipient of the transfer a call waits in calls back into the engine.
Reenter ==
    /\ frame.active
    /\ \/ \E c \in {x \in ReentryCalls : x[1] = frame.to} :
            nonReentrant("openPosition", c[1],
                         [marketId |-> c[2], direction |-> c[3], collateral |-> c[4],
                          leverage |-> c[5]],
                         openPosition(c[1], c[2], c[3], c[4], c[5]))
       \/ \E i \in 1..MaxPositions :
            nonReentrant("closePosition", frame.to, [positionId |-> i],
                         closePosition(frame.to, i))
       \/ \E i \in 1..MaxPositions :
            nonReentrant("liquidatePosition", frame.to, [positionId |-> i],
                         liquidatePosition(frame.to, i))
       \/ \E i \in 1..MaxPositions :
            nonReentrant("settlePosition", frame.to, [positionId |-> i],
                         settlePosition(frame.to, i))
       \/ \E k \in 0..MaxPositions :
            nonReentrant("settleMarketPositions", frame.to,
                         [marketId |-> "m1", maxPositions |-> k],
                         settleMarketPositions(frame.to, "m1", k))
       \/ withdrawFees(frame.to)
       \/ \E r \in Keepers : setFeeRecipient(frame.to, r)
       \/ \E n \in Keepers : engineTransferOwnership(frame.to, n)

ReentryNext ==
    \/ ~frame.active /\ \E a \in Keepers, p \in PoolUpdates : updateMarketData(a, p)
    \/ ~frame.active /\ \E a \in Keepers, p \in ReentryResolutions :
                            resolveMarketWithProof(a, p)
    \/ ~frame.active /\ \E c \in ReentryCalls : openPosition(c[1], c[2], c[3], c[4], c[5])
    \/ \E i \in 1..MaxPositions : Enter("closePosition", Deployer, [positionId |-> i])
    \/ \E a \in Keepers, i \in 1..MaxPositions :
            Enter("liquidatePosition", a, [positionId |-> i])
    \/ \E a \in Keepers, i \in 1..MaxPositions :
            Enter("settlePosition", a, [positionId |-> i])
    \/ \E a \in Keepers, k \in 0..MaxPositions :
            Enter("settleMarketPositions", a, [marketId |-> "m1", maxPositions |-> k])
    \/ \E a \in Accounts : Enter("withdrawFees", a, [none |-> 0])
    \/ TransferReturn
    \/ Reenter

ReentrySpec == LifeInit /\ [][ReentryNext]_vars

(***************************************************************************)
(* Claims about the oracle                                                 *)
(***************************************************************************)
\* Whether url begins with the expected API prefix.
HasApiPrefix(url) ==
    /\ Len(url) >= Len(POLYMARKET_API_PREFIX)
    /\ SubSeq(url, 1, Len(POLYMARKET_API_PREFIX)) = POLYMARKET_API_PREFIX

PricesInBand(y, n) ==
    /\ y <= 10000
    /\ n <= 10000
    /\ y + n \in 9500..10500

Pinned(r) ==
    \/ r.yesPrice = 10000 /\ r.noPrice = 0
    \/ r.yesPrice = 0 /\ r.noPrice = 10000

OracleIndex == <<marketIds, marketExists>>

\* C1: resolution is terminal.  Once a market is resolved it stays resolved over
\* every later oracle call, and an updateMarketData for a resolved market is
\* rejected with the already-resolved error and leaves the record as it was.
C1_ResolutionTerminal ==
    [][\A m \in MarketIdSet :
        markets[m].resolved =>
            /\ markets'[m].resolved
            /\ (lastCall'.op = "updateMarketData" /\ lastCall'.arg.dto.marketId = m
                /\ lastCall'.arg.valid /\ HasApiPrefix(lastCall'.arg.url))
               => (lastCall'.err = "MarketAlreadyResolved" /\ markets'[m] = markets[m])
      ]_vars

\* C2: in every reachable state a resolved record carries the prices (10000, 0) or
\* (0, 10000), whatever oracle calls led to the state.
C2_ResolvedPricesPinned ==
    \A m \in MarketIdSet : markets[m].resolved => Pinned(markets[m])

\* C2 witness: a proof showing 9900 for YES has just resolved a market, whose
\* record now reads 10000 / 0.
C2_Witness ==
    /\ lastCall.op = "resolveMarketWithProof"
    /\ lastCall.err = "ok"
    /\ lastCall.arg.dto.yesPrice = 9900
    /\ markets[lastCall.arg.dto.marketId].resolved
    /\ markets[lastCall.arg.dto.marketId].yesPrice = 10000

\* C3: in every reachable state an existing, unresolved record has both prices at
\* most 10000, their sum within [9500, 10500] and liquidity at least MIN_LIQUIDITY.
C3_ActiveRecordValid ==
    \A m \in MarketIdSet :
        (markets[m].timestamp > 0 /\ ~markets[m].resolved) =>
            /\ PricesInBand(markets[m].yesPrice, markets[m].noPrice)
            /\ markets[m].liquidity >= 1000 * 1000000

\* C3 witness: an update on the upper edge of the band (10000 + 500) has just been
\* stored and the record is unresolved.
C3_Witness ==
    /\ lastCall.op = "updateMarketData"
    /\ lastCall.err = "ok"
    /\ markets[lastCall.arg.dto.marketId].timestamp = now
    /\ ~markets[lastCall.arg.dto.marketId].resolved
    /\ markets[lastCall.arg.dto.marketId].yesPrice
         + markets[lastCall.arg.dto.marketId].noPrice = 10500

\* The outcome C4 states for updateMarketData(p): the error of the first check that
\* fails, in the order proof, URL, prices, liquidity.
C4_Expected(p) ==
    IF ~p.valid THEN "InvalidProof"
    ELSE IF ~HasApiPrefix(p.url) THEN "InvalidUrl"
    ELSE IF ~PricesInBand(p.dto.yesPrice, p.dto.noPrice) THEN "InvalidPrices"
    ELSE IF p.dto.liquidity < 1000 * 1000000 THEN "InsufficientLiquidity"
    ELSE "ok"

C5_ResolveFailures ==
    [][(lastCall'.op = "resolveMarketWithProof"
        /\ lastCall'.arg.valid /\ HasApiPrefix(lastCall'.arg.url)) =>
            LET d == lastCall'.arg.dto
                r == markets[lastCall'.arg.dto.marketId]
            IN
            /\ r.timestamp = 0 => lastCall'.err = "MarketNotFound"
            /\ (r.timestamp # 0 /\ r.resolved) => lastCall'.err = "MarketAlreadyResolved"
            /\ (r.timestamp # 0 /\ ~r.resolved /\ d.yesPrice < 9900 /\ d.noPrice < 9900)
                    => lastCall'.err = "InvalidPrices"
            /\ lastCall'.err # "ok" => (markets' = markets /\ OracleIndex' = OracleIndex)
      ]_vars

\* C5 witness: a resolution of an already resolved market has just been refused.
C5_Witness ==
    /\ lastCall.op = "resolveMarketWithProof"
    /\ lastCall.err = "MarketAlreadyResolved"
    /\ markets[lastCall.arg.dto.marketId].resolved

\* C6: a successful resolveMarketWithProof sets resolved, sets outcome to YES iff the
\* payload's yesPrice is at least 9900, pins the prices to that side, and leaves
\* marketId, question, volume, liquidity, timestamp and the index as they were.
C6_ResolveEffect ==
    [][(lastCall'.op = "resolveMarketWithProof" /\ lastCall'.err = "ok") =>
            LET id == lastCall'.arg.dto.marketId
                yes == lastCall'.arg.dto.yesPrice >= 9900
            IN
            /\ markets'[id].resolved
            /\ markets'[id].outcome = yes
            /\ markets'[id].yesPrice = (IF yes THEN 10000 ELSE 0)
            /\ markets'[id].noPrice = (IF yes THEN 0 ELSE 10000)
            /\ markets'[id].marketId = markets[id].marketId
            /\ markets'[id].question = markets[id].question
            /\ markets'[id].volume = markets[id].volume
            /\ markets'[id].liquidity = markets[id].liquidity
            /\ markets'[id].timestamp = markets[id].timestamp
            /\ OracleIndex' = OracleIndex
            /\ \A m \in MarketIdSet \ {id} : markets'[m] = markets[m]
      ]_vars

\* C6 witness: a proof whose payload shows both sides at 10000, and carries another
\* question and liquidity than the record, has just resolved the market for YES.
C6_Witness ==
    /\ lastCall.op = "resolveMarketWithProof"
    /\ lastCall.err = "ok"
    /\ lastCall.arg.dto.noPrice = 10000
    /\ lastCall.arg.dto.yesPrice = 10000
    /\ markets[lastCall.arg.dto.marketId].outcome
    /\ markets[lastCall.arg.dto.marketId].question # lastCall.arg.dto.question
    /\ markets[lastCall.arg.dto.marketId].liquidity # lastCall.arg.dto.liquidity

(***************************************************************************)
(* Claims about openPosition                                               *)
(***************************************************************************)
\* Arguments the claims about openPosition's outcome range over.
CollateralArgs == {0, 10000000 - 1, 10000000, 100000000}
LeverageArgs == {0, 9999, 10000, 10001, 20000, 49999, 50000, 50001, 60000}

\* The market has a record written at most an hour ago.
Fresh(m) == markets[m].timestamp # 0 /\ now - markets[m].timestamp <= 3600

\* The price a direction is valued at.
SidePrice(m, d) ==
    IF d \in {"LONG_YES", "SHORT_NO"} THEN markets[m].yesPrice ELSE markets[m].noPrice

\* Ids of the positions created so far.
PositionIds == 1..(nextPositionId - 1)

EngineState == <<nextPositionId, positions, userPositions, marketPositions,
                 totalFeesCollected, balanceOf, allowance>>

C8_NoOpenOnResolved ==
    /\ [](\A a \in Accounts, m \in MarketIdSet, d \in Directions,
             c \in CollateralArgs, l \in LeverageArgs :
                markets[m].resolved =>
                    /\ openPositionError(a, m, d, c, l) # "ok"
                    /\ (Fresh(m) /\ c >= 10000000 /\ l \in 10000..50000)
                           => openPositionError(a, m, d, c, l) = "Market already resolved")
    /\ [][(lastCall'.op = "openPosition" /\ markets[lastCall'.arg.marketId].resolved) =>
            /\ lastCall'.err # "ok"
            /\ EngineState' = EngineState
      ]_vars

\* C8 witness: a call with valid collateral and leverage on a fresh, resolved market
\* has just ended with the market-resolved error.
C8_Witness ==
    /\ lastCall.op = "openPosition"
    /\ lastCall.err = "Market already resolved"
    /\ markets[lastCall.arg.marketId].resolved
    /\ Fresh(lastCall.arg.marketId)
    /\ allowance[lastCall.sender] >= lastCall.arg.collateral
    /\ SidePrice(lastCall.arg.marketId, lastCall.arg.direction) > 0

\* C9: every position created has entryPrice > 0; a call that passes the checks
\* before the price is read and finds the directional price 0 ends with the
\* invalid-oracle-price error, moves no collateral and creates no position.
C9_EntryPricePositive ==
    /\ [](\A i \in PositionIds : positions[i].entryPrice > 0)
    /\ [][(lastCall'.op = "openPosition"
           /\ SidePrice(lastCall'.arg.marketId, lastCall'.arg.direction) = 0) =>
            /\ lastCall'.err # "ok"
            /\ EngineState' = EngineState
            /\ (Fresh(lastCall'.arg.marketId)
                /\ ~markets[lastCall'.arg.marketId].resolved
                /\ lastCall'.arg.collateral >= 10000000
                /\ lastCall'.arg.leverage \in 10000..50000)
               => lastCall'.err = "Invalid oracle price"
      ]_vars

\* C9 witness: a LONG_YES call on a fresh, unresolved market whose YES price is 0 has
\* just ended with the invalid-oracle-price error, the caller having approved enough.
C9_Witness ==
    /\ lastCall.op = "openPosition"
    /\ lastCall.err = "Invalid oracle price"
    /\ lastCall.arg.direction = "LONG_YES"
    /\ markets[lastCall.arg.marketId].yesPrice = 0
    /\ ~markets[lastCall.arg.marketId].resolved
    /\ allowance[lastCall.sender] >= lastCall.arg.collateral
    /\ balanceOf[lastCall.sender] >= lastCall.arg.collateral

\* What C10 assumes of a call besides its leverage.
C10_Ready(a, m, d, c) ==
    /\ Fresh(m)
    /\ ~markets[m].resolved
    /\ SidePrice(m, d) # 0
    /\ c >= 10000000
    /\ balanceOf[a] >= c
    /\ allowance[a] >= c

C10_Expected(l) ==
    IF l < 10000 THEN "Leverage too low"
    ELSE IF l > 50000 THEN "Leverage too high"
    ELSE "ok"

\* C10: on a fresh, unresolved market with a non-zero directional price, collateral
\* at least MIN_COLLATERAL and enough balance and allowance, openPosition succeeds
\* for every leverage in [10000, 50000], ends with the leverage-too-low error below
\* 10000 and with the leverage-too-high error above 50000; every stored position has
\* its leverage in [10000, 50000].
C10_LeverageBounds ==
    /\ [](/\ \A a \in Accounts, m \in MarketIdSet, d \in Directions,
               c \in CollateralArgs, l \in LeverageArgs :
                  C10_Ready(a, m, d, c) => openPositionError(a, m, d, c, l) = C10_Expected(l)
          /\ \A i \in PositionIds : positions[i].leverage \in 10000..50000)
    /\ [][(lastCall'.op = "openPosition"
           /\ C10_Ready(lastCall'.sender, lastCall'.arg.marketId, lastCall'.arg.direction,
                        lastCall'.arg.collateral)) =>
            /\ lastCall'.err = C10_Expected(lastCall'.arg.leverage)
            /\ lastCall'.err = "ok" =>
                    /\ nextPositionId' = nextPositionId + 1
                    /\ positions'[nextPositionId].leverage = lastCall'.arg.leverage
                    /\ positions'[nextPositionId].isOpen
      ]_vars

\* C10 witness: a call at leverage 50000 has just opened a position.
C10_Witness ==
    /\ lastCall.op = "openPosition"
    /\ lastCall.err = "ok"
    /\ lastCall.arg.leverage = 50000
    /\ positions[lastCall.ret].isOpen
    /\ positions[lastCall.ret].leverage = 50000

\* C11: openPosition with collateral below MIN_COLLATERAL (0 included) ends with
\* the collateral-too-low error, and with enough collateral and leverage below
\* MIN_LEVERAGE or above MAX_LEVERAGE with the leverage-too-low or leverage-too-high
\* error, whatever the market id is, a market the oracle holds no data for included.
C11_ArgumentErrors ==
    [][(lastCall'.op = "openPosition") =>
        /\ (lastCall'.arg.collateral < 10000000) => lastCall'.err = "Collateral too low"
        /\ (lastCall'.arg.collateral >= 10000000 /\ lastCall'.arg.leverage < 10000)
              => lastCall'.err = "Leverage too low"
        /\ (lastCall'.arg.collateral >= 10000000 /\ lastCall'.arg.leverage > 50000)
              => lastCall'.err = "Leverage too high"
      ]_vars

\* The fee and the size C12 states, in the claim's numbers.
C12_Fee(c) == (c * 10) \div 10000

C12_Size(c, lev) == MulDiv(c - C12_Fee(c), lev, 10000)

\* C12: a successful openPosition(marketId, direction, c, lev) moves exactly c tokens
\* from the caller to the engine, adds fee = floor(c * 10 / 10000) to
\* totalFeesCollected and stores under the returned id a position with collateral
\* c - fee, size floor((c - fee) * lev / 10000), entryPrice the directional oracle
\* price, owner the caller, isOpen true and settled false.
C12_OpenEffect ==
    [][(lastCall'.op = "openPosition" /\ lastCall'.err = "ok") =>
        LET c == lastCall'.arg.collateral
            id == lastCall'.ret
        IN /\ balanceOf'[lastCall'.sender] = balanceOf[lastCall'.sender] - c
           /\ balanceOf'[Engine] = balanceOf[Engine] + c
           /\ \A a \in Accounts \ {lastCall'.sender} : balanceOf'[a] = balanceOf[a]
           /\ totalFeesCollected' = totalFeesCollected + C12_Fee(c)
           /\ ~positions[id].isOpen
           /\ positions'[id].collateral = c - C12_Fee(c)
           /\ positions'[id].size = C12_Size(c, lastCall'.arg.leverage)
           /\ positions'[id].leverage = lastCall'.arg.leverage
           /\ positions'[id].entryPrice
                  = SidePrice(lastCall'.arg.marketId, lastCall'.arg.direction)
           /\ positions'[id].owner = lastCall'.sender
           /\ positions'[id].marketId = lastCall'.arg.marketId
           /\ positions'[id].direction = lastCall'.arg.direction
           /\ positions'[id].isOpen
           /\ ~positions'[id].settled
      ]_vars

\* C12 witness: the call of the example (100e6 at leverage 20000, LONG_YES, YES price
\* 6500) has just stored collateral 99.9e6, size 199.8e6 and entry price 6500.
C12_Witness ==
    /\ lastCall.op = "openPosition"
    /\ lastCall.err = "ok"
    /\ lastCall.arg = [marketId |-> "m1", direction |-> "LONG_YES",
                       collateral |-> 100000000, leverage |-> 20000]
    /\ positions[lastCall.ret].collateral = 99900000
    /\ positions[lastCall.ret].size = 199800000
    /\ positions[lastCall.ret].entryPrice = 6500
    /\ balanceOf[Engine] >= 100000000
    /\ totalFeesCollected >= 100000

\* C13: every position, open or closed, has size = floor(collateral * leverage /
\* 10000), and no step changes the size, collateral or leverage of a position that
\* exists.
C13_SizeFormula ==
    /\ [](\A i \in PositionIds :
             positions[i].size = MulDiv(positions[i].collateral, positions[i].leverage, 10000))
    /\ [][\A i \in PositionIds :
             /\ positions'[i].size = positions[i].size
             /\ positions'[i].collateral = positions[i].collateral
             /\ positions'[i].leverage = positions[i].leverage
      ]_vars

\* C13 witness: a closed and an open position exist, and for one of them collateral
\* times leverage is not a multiple of 10000.
C13_Witness ==
    /\ \E i \in PositionIds : ~positions[i].isOpen
    /\ \E i \in PositionIds : positions[i].isOpen
    /\ \E i \in PositionIds :
          MulMod(positions[i].collateral, positions[i].leverage, 10000) # 0

\* A position that was created and is no longer open.
Closed(i) == i \in PositionIds /\ ~positions[i].isOpen

\* C14: isOpen never goes back to true.  Once a position has been closed, by
\* closePosition, liquidatePosition, settlePosition or settleMarketPositions, every
\* closePosition, liquidatePosition and settlePosition call on its id ends with the
\* position-not-open error and changes nothing, and calculatePnL on it fails.
C14_ClosedIsTerminal ==
    /\ [](\A i \in PositionIds : Closed(i) =>
             /\ calculatePnLError(i) = "Position not open"
             /\ \A a \in Accounts :
                   /\ closePositionError(a, i) = "Position not open"
                   /\ liquidatePositionError(a, i) = "Position not open"
                   /\ settlePositionError(a, i) = "Position not open")
    /\ [][/\ \A i \in PositionIds : Closed(i) => ~positions'[i].isOpen
          /\ (lastCall'.op \in {"closePosition", "liquidatePosition", "settlePosition"}
              /\ Closed(lastCall'.arg.positionId)) =>
                /\ lastCall'.err = "Position not open"
                /\ EngineState' = EngineState
      ]_vars

\* C14 witness: the owner's closePosition has just failed with the position-not-open
\* error on a position that was settled, while another position was closed without
\* being settled.
C14_Witness ==
    /\ lastCall.op = "closePosition"
    /\ lastCall.err = "Position not open"
    /\ Closed(lastCall.arg.positionId)
    /\ positions[lastCall.arg.positionId].settled
    /\ positions[lastCall.arg.positionId].owner = lastCall.sender
    /\ \E i \in PositionIds : Closed(i) /\ ~positions[i].settled

\* C15: closePosition on an open position succeeds only for its owner: a call by
\* another account ends with the not-owner error, leaves the position open and
\* moves no tokens; the owner of a position never changes.
C15_OnlyOwnerCloses ==
    /\ [](\A i \in PositionIds, a \in Accounts :
             (positions[i].isOpen /\ a # positions[i].owner)
                => closePositionError(a, i) = "Not position owner")
    /\ [][/\ \A i \in PositionIds : positions'[i].owner = positions[i].owner
          /\ (lastCall'.op = "closePosition"
              /\ PositionAt(lastCall'.arg.positionId).isOpen) =>
                /\ lastCall'.err = "ok"
                       => lastCall'.sender = positions[lastCall'.arg.positionId].owner
                /\ lastCall'.sender # positions[lastCall'.arg.positionId].owner
                       => /\ lastCall'.err = "Not position owner"
                          /\ positions'[lastCall'.arg.positionId].isOpen
                          /\ EngineState' = EngineState
      ]_vars

\* C15 witness: a closePosition by an account that is not the owner has just failed
\* with the not-owner error on a position that is still open and could be paid out.
C15_Witness ==
    /\ lastCall.op = "closePosition"
    /\ lastCall.err = "Not position owner"
    /\ PositionAt(lastCall.arg.positionId).isOpen
    /\ lastCall.sender # positions[lastCall.arg.positionId].owner
    /\ closePositionError(positions[lastCall.arg.positionId].owner,
                          lastCall.arg.positionId) = "ok"

\* The valuation C16 to C20 state, in the claims' words: size * priceDiff / entryPrice
\* truncated toward zero, priceDiff = price - entryPrice for the long directions and
\* entryPrice - price for the short ones.
ClaimPnL(p, price) ==
    LET diff == IF p.direction \in {"LONG_YES", "LONG_NO"}
                THEN price - p.entryPrice ELSE p.entryPrice - price
        abs == IF diff < 0 THEN -diff ELSE diff
        quot == (p.size \div p.entryPrice) * abs
                    + ((p.size % p.entryPrice) * abs) \div p.entryPrice
    IN IF diff < 0 THEN -quot ELSE quot

\* The value of position i at the oracle's current price for its direction.
ClaimValue(i) ==
    ClaimPnL(positions[i], SidePrice(positions[i].marketId, positions[i].direction))

\* max(0, collateral + pnl)
ClaimPayout(i) ==
    IF positions[i].collateral + ClaimValue(i) > 0
    THEN positions[i].collateral + ClaimValue(i) ELSE 0

\* collateral + pnl < floor(collateral * 2000 / 10000)
ClaimLiquidatable(i) ==
    positions[i].collateral + ClaimValue(i)
        < (positions[i].collateral \div 10000) * 2000
              + ((positions[i].collateral % 10000) * 2000) \div 10000

\* The balances after amount has moved from the engine to account a.
Paid(a, amount) == [balanceOf EXCEPT ![Engine] = @ - amount, ![a] = @ + amount]

\* C16: a successful closePosition by the owner returns the signed PnL at the current
\* directional oracle price, moves exactly max(0, collateral + pnl) tokens from the
\* engine to the owner, sets isOpen to false and leaves settled false; there is no
\* liquidation check: the owner's call on an open position succeeds whenever the
\* engine holds the payout, also when the position is liquidatable.
C16_CloseEffect ==
    /\ [](\A i \in PositionIds :
             (positions[i].isOpen /\ balanceOf[Engine] >= ClaimPayout(i))
                => closePositionError(positions[i].owner, i) = "ok")
    /\ [][(lastCall'.op = "closePosition" /\ lastCall'.err = "ok") =>
            LET i == lastCall'.arg.positionId IN
            /\ lastCall'.sender = positions[i].owner
            /\ lastCall'.ret = ClaimValue(i)
            /\ balanceOf' = Paid(positions[i].owner, ClaimPayout(i))
            /\ positions' = [positions EXCEPT ![i].isOpen = FALSE]
            /\ ~positions'[i].settled
      ]_vars

\* C16 witness: the owner has just closed at a loss a position that was liquidatable
\* at the price it was closed at, and was paid what was left of the collateral.
C16_Witness ==
    /\ lastCall.op = "closePosition"
    /\ lastCall.err = "ok"
    /\ lastCall.ret < 0
    /\ positions[lastCall.arg.positionId].collateral + lastCall.ret > 0
    /\ (positions[lastCall.arg.positionId].collateral + lastCall.ret) * 5
           < positions[lastCall.arg.positionId].collateral
    /\ ~positions[lastCall.arg.positionId].isOpen
    /\ ~positions[lastCall.arg.positionId].settled

\* The sum of the claimed payouts of the positions of set S that account a owns.
RECURSIVE ClaimPayoutSum(_, _)
ClaimPayoutSum(S, a) ==
    IF S = {} THEN 0
    ELSE LET i == CHOOSE j \in S : TRUE IN
         (IF positions[i].owner = a THEN ClaimPayout(i) ELSE 0)
             + ClaimPayoutSum(S \ {i}, a)

\* Prices and sizes the valuation is compared on for all four directions.
C17_Prices == {0, 1, 3500, 5000, 6500, 9999, 10000}

C17_Sizes == {0, 1, 199801}

C18_LiquidatableIff ==
    /\ \A i \in PositionIds :
          isLiquidatable(i) = (positions[i].isOpen /\ ClaimLiquidatable(i))
    /\ \A i \in 1..(MaxPositions + 1) : i \notin PositionIds => ~isLiquidatable(i)

\* C18 witness: a position that was liquidatable has just been liquidated and is no
\* longer liquidatable, although its equity at the current price is below the
\* threshold; another position is open and not liquidatable, and the next id is not
\* assigned.
C18_Witness ==
    /\ lastCall.op = "liquidatePosition"
    /\ lastCall.err = "ok"
    /\ ClaimLiquidatable(lastCall.arg.positionId)
    /\ ~isLiquidatable(lastCall.arg.positionId)
    /\ \E j \in PositionIds : positions[j].isOpen /\ ~isLiquidatable(j)
    /\ ~isLiquidatable(nextPositionId)

\* floor(collateral * 500 / 10000)
ClaimReward(i) ==
    (positions[i].collateral \div 10000) * 500
        + ((positions[i].collateral % 10000) * 500) \div 10000

\* C19 as stated: liquidatePosition by any caller on an open position ends with the
\* not-liquidatable error and changes nothing when isLiquidatable is false; when it
\* is true the call moves exactly floor(collateral * 500 / 10000) tokens to the
\* caller and nothing to an owner who is not the caller, sets isOpen to false,
\* leaves settled false, and collateral - reward stays in the engine.
C19_AsStated ==
    [][(lastCall'.op = "liquidatePosition"
        /\ PositionAt(lastCall'.arg.positionId).isOpen) =>
          LET i == lastCall'.arg.positionId IN
          IF ~ClaimLiquidatable(i)
          THEN /\ lastCall'.err = "Not liquidatable"
               /\ EngineState' = EngineState
          ELSE /\ lastCall'.err = "ok"
               /\ balanceOf'[lastCall'.sender] = balanceOf[lastCall'.sender] + ClaimReward(i)
               /\ lastCall'.sender # positions[i].owner
                      => balanceOf'[positions[i].owner] = balanceOf[positions[i].owner]
               /\ balanceOf'[Engine] = balanceOf[Engine] - ClaimReward(i)
               /\ positions' = [positions EXCEPT ![i].isOpen = FALSE]
      ]_vars

\* C19 by cases on the balance: liquidatePosition by any caller on an open
\* position ends with the not-liquidatable error and changes nothing when
\* isLiquidatable is false.  When it is true and the engine holds at least
\* reward = floor(collateral * 500 / 10000) tokens, the call moves exactly the
\* reward from the engine to the caller and no
\* other tokens (the owner receives something only when the owner is the caller),
\* sets isOpen to false and leaves settled false.  When it is true and the engine
\* holds less than the reward, the call ends with the token's insufficient-balance
\* error and changes nothing.
C19_LiquidateEffect ==
    [][(lastCall'.op = "liquidatePosition"
        /\ PositionAt(lastCall'.arg.positionId).isOpen) =>
          LET i == lastCall'.arg.positionId IN
          IF ~ClaimLiquidatable(i)
          THEN /\ lastCall'.err = "Not liquidatable"
               /\ EngineState' = EngineState
          ELSE IF balanceOf[Engine] < ClaimReward(i)
          THEN /\ lastCall'.err = "ERC20InsufficientBalance"
               /\ EngineState' = EngineState
          ELSE /\ lastCall'.err = "ok"
               /\ balanceOf' = Paid(lastCall'.sender, ClaimReward(i))
               /\ positions' = [positions EXCEPT ![i].isOpen = FALSE]
               /\ ~positions'[i].settled
      ]_vars

\* C19 witness: an account other than the owner has just liquidated a position and
\* holds the reward, the owner having received nothing since opening it.
C19_Witness ==
    /\ lastCall.op = "liquidatePosition"
    /\ lastCall.err = "ok"
    /\ lastCall.sender # positions[lastCall.arg.positionId].owner
    /\ ~positions[lastCall.arg.positionId].isOpen
    /\ ~positions[lastCall.arg.positionId].settled
    /\ balanceOf[lastCall.sender] = InitialBalance + ClaimReward(lastCall.arg.positionId)
    /\ balanceOf[positions[lastCall.arg.positionId].owner] < InitialBalance

\* The market of position i is resolved according to the oracle.
ClaimResolved(i) == markets[positions[i].marketId].resolved

\* C20 as stated: the settlement paths change state only on a resolved market.  On
\* an unresolved market settlePosition on an open position and settleMarketPositions
\* end with the market-not-resolved error and change no position or balance; on a
\* resolved market settlePosition by any account on an open position pays max(0,
\* collateral + pnl) at the pinned price to the owner and sets isOpen to false and
\* settled to true.
C20_AsStated ==
    [][/\ (lastCall'.op = "settlePosition"
           /\ PositionAt(lastCall'.arg.positionId).isOpen) =>
             LET i == lastCall'.arg.positionId IN
             IF ~ClaimResolved(i)
             THEN /\ lastCall'.err = "Market not resolved"
                  /\ EngineState' = EngineState
             ELSE /\ lastCall'.err = "ok"
                  /\ balanceOf' = Paid(positions[i].owner, ClaimPayout(i))
                  /\ positions' = [positions EXCEPT ![i].isOpen = FALSE,
                                                    ![i].settled = TRUE]
       /\ (lastCall'.op = "settleMarketPositions"
           /\ ~markets[lastCall'.arg.marketId].resolved) =>
             /\ lastCall'.err = "Market not resolved"
             /\ EngineState' = EngineState
      ]_vars

\* C20 by cases on the balance: settlement paths change state only on a resolved market.  On
\* an unresolved market settlePosition on an open position and settleMarketPositions
\* end with the market-not-resolved error and change no position or balance.  On a
\* resolved market settlePosition by any account on an open position, when the
\* engine holds at least payout = max(0, collateral + pnl) at the pinned price, pays
\* exactly the payout to the position's owner (nothing to a caller who is not the
\* owner) and sets isOpen to false and settled to true; when the engine holds less
\* than the payout the call ends with the token's insufficient-balance error and
\* changes nothing.
C20_SettleEffect ==
    [][/\ (lastCall'.op = "settlePosition"
           /\ PositionAt(lastCall'.arg.positionId).isOpen) =>
             LET i == lastCall'.arg.positionId IN
             IF ~ClaimResolved(i)
             THEN /\ lastCall'.err = "Market not resolved"
                  /\ EngineState' = EngineState
             ELSE IF balanceOf[Engine] < ClaimPayout(i)
             THEN /\ lastCall'.err = "ERC20InsufficientBalance"
                  /\ EngineState' = EngineState
             ELSE /\ lastCall'.err = "ok"
                  /\ Pinned(markets[positions[i].marketId])
                  /\ balanceOf' = Paid(positions[i].owner, ClaimPayout(i))
                  /\ positions' = [positions EXCEPT ![i].isOpen = FALSE,
                                                    ![i].settled = TRUE]
       /\ (lastCall'.op = "settleMarketPositions"
           /\ ~markets[lastCall'.arg.marketId].resolved) =>
             /\ lastCall'.err = "Market not resolved"
             /\ EngineState' = EngineState
       /\ (lastCall'.op \in {"settlePosition", "settleMarketPositions"}
           /\ EngineState' # EngineState) =>
             /\ lastCall'.err = "ok"
             /\ \A i \in PositionIds : positions'[i] # positions[i] => ClaimResolved(i)
      ]_vars

\* C20 witness: an account that is not the owner has just settled a position on a
\* resolved market, and the owner, not the caller, holds the payout.
C20_Witness ==
    /\ lastCall.op = "settlePosition"
    /\ lastCall.err = "ok"
    /\ lastCall.sender # positions[lastCall.arg.positionId].owner
    /\ positions[lastCall.arg.positionId].settled
    /\ ~positions[lastCall.arg.positionId].isOpen
    /\ markets[positions[lastCall.arg.positionId].marketId].resolved
    /\ balanceOf[positions[lastCall.arg.positionId].owner] > InitialBalance
    /\ balanceOf[lastCall.sender] <= InitialBalance

(***************************************************************************)
(* Claims about batch settlement and the pool                              *)
(***************************************************************************)
\* The ids of the open positions on market m.
OpenOn(m) == {i \in DOMAIN positions : positions[i].isOpen /\ positions[i].marketId = m}

\* The positions a step takes from open to closed and settled.
NewlySettled ==
    {i \in DOMAIN positions :
        /\ positions[i].isOpen /\ ~positions[i].settled
        /\ ~positions'[i].isOpen /\ positions'[i].settled}

\* C21: a committed settleMarketPositions(marketId, k) on a market with N open
\* positions and k < N settles exactly k of them, returns k and leaves N - k open;
\* no call settles more than maxPositions positions or changes a position of
\* another market.
C21_BatchCount ==
    [][(lastCall'.op = "settleMarketPositions" /\ lastCall'.err = "ok") =>
        LET m == lastCall'.arg.marketId
            k == lastCall'.arg.maxPositions
            N == Cardinality(OpenOn(m))
        IN /\ k < N =>
                /\ lastCall'.ret = k
                /\ Cardinality(NewlySettled) = k
                /\ Cardinality({i \in OpenOn(m) : positions'[i].isOpen}) = N - k
           /\ Cardinality(NewlySettled) <= k
           /\ \A i \in DOMAIN positions :
                positions[i].marketId # m => positions'[i] = positions[i]]_vars

\* C22: batch settlement makes progress: every committed settleMarketPositions
\* call with maxPositions >= 1 made while the market has open positions settles
\* at least one of them, so that repeating the call empties the market.
C22_BatchProgress ==
    [][(/\ lastCall'.op = "settleMarketPositions"
        /\ lastCall'.err = "ok"
        /\ lastCall'.arg.maxPositions >= 1
        /\ OpenOn(lastCall'.arg.marketId) # {})
       => \E i \in OpenOn(lastCall'.arg.marketId) :
            ~positions'[i].isOpen /\ positions'[i].settled]_vars

\* The calls that end the life of a position.
ClosingOps == {"closePosition", "liquidatePosition", "settlePosition",
               "settleMarketPositions"}

\* The positions a step takes from open to closed.
Leaving == {i \in DOMAIN positions : positions[i].isOpen /\ ~positions'[i].isOpen}

\* What the positions of S are owed together: the liquidation reward of each when
\* they are liquidated, max(0, collateral + pnl) of each otherwise.
RECURSIVE ClaimDueSum(_, _)
ClaimDueSum(S, liquidation) ==
    IF S = {} THEN 0
    ELSE LET i == CHOOSE j \in S : TRUE IN
         (IF liquidation THEN ClaimReward(i) ELSE ClaimPayout(i))
             + ClaimDueSum(S \ {i}, liquidation)

\* C23: no double payout.  Whatever closePosition, liquidatePosition, settlePosition
\* and settleMarketPositions calls are made, by whatever callers, the tokens that
\* leave the engine in a call are exactly what is owed to the positions that were
\* open before it and are closed after it; a position that is already closed is
\* never paid or changed again, and a position is marked settled only while it is
\* open and not yet settled.
C23_NoDoublePayout ==
    [][/\ lastCall'.op \in ClosingOps =>
            /\ balanceOf[Engine] - balanceOf'[Engine]
                  = ClaimDueSum(Leaving, lastCall'.op = "liquidatePosition")
            /\ \A i \in DOMAIN positions : positions'[i] # positions[i] => i \in Leaving
            /\ lastCall'.op # "settleMarketPositions" =>
                    Leaving \subseteq {lastCall'.arg.positionId}
       /\ \A i \in DOMAIN positions :
            /\ ~positions[i].isOpen /\ nextPositionId > i => positions'[i] = positions[i]
            /\ (positions'[i].settled /\ ~positions[i].settled) =>
                    positions[i].isOpen /\ ~positions'[i].isOpen
      ]_vars

\* C23 witness: a batch over at least two index entries has just settled one
\* position and passed over an earlier entry that its owner had closed and been
\* paid for before.
C23_Witness ==
    /\ lastCall.op = "settleMarketPositions"
    /\ lastCall.err = "ok"
    /\ lastCall.arg.maxPositions >= 2
    /\ lastCall.ret = 1
    /\ nextPositionId > 2
    /\ ~positions[1].isOpen /\ ~positions[1].settled
    /\ ~positions[2].isOpen /\ positions[2].settled
    /\ positions[1].direction = "LONG_NO"
    /\ positions[2].direction = "SHORT_YES"
    /\ balanceOf[Engine] < totalDeposited - positions[1].collateral
    /\ balanceOf[Engine] >= positions[1].collateral

\* collateral + size summed over the positions of S.
RECURSIVE ClaimCapSum(_)
ClaimCapSum(S) ==
    IF S = {} THEN 0
    ELSE LET i == CHOOSE j \in S : TRUE IN
         positions[i].collateral + positions[i].size + ClaimCapSum(S \ {i})

\* C24: however a position is closed (closePosition, liquidatePosition,
\* settlePosition, settleMarketPositions), the amount the engine pays out for it
\* is at least 0 and at most collateral + size.
C24_PayoutBounded ==
    [][(lastCall'.op \in ClosingOps /\ lastCall'.err = "ok") =>
            /\ balanceOf[Engine] - balanceOf'[Engine] >= 0
            /\ balanceOf[Engine] - balanceOf'[Engine] <= ClaimCapSum(Leaving)]_vars

\* C25: the PnL of every open position at the oracle's price is at least -size:
\* a position cannot lose more than its leveraged notional, whatever its direction.
C25_LossBounded ==
    \A i \in DOMAIN positions :
        (positions[i].isOpen /\ calculatePnLError(i) = "ok") =>
            calculatePnL(i) >= -positions[i].size

\* The collateral of the positions of S, summed.
RECURSIVE ClaimCollateralSum(_)
ClaimCollateralSum(S) ==
    IF S = {} THEN 0
    ELSE LET i == CHOOSE j \in S : TRUE IN
         positions[i].collateral + ClaimCollateralSum(S \ {i})

\* The ids of the open positions.
OpenIds == {i \in DOMAIN positions : positions[i].isOpen}

\* C26: in every reachable state the collateral of the open positions plus
\* totalFeesCollected is at most the collateral ever taken in by successful
\* openPosition calls, and totalFeesCollected alone never exceeds that total.
C26_Solvency ==
    /\ ClaimCollateralSum(OpenIds) + totalFeesCollected <= totalDeposited
    /\ totalFeesCollected <= totalDeposited

\* C26 witness: a position has just been opened after an earlier position was
\* closed and the fees of the earlier deposits were withdrawn.
C26_Witness ==
    /\ lastCall.op = "openPosition"
    /\ lastCall.err = "ok"
    /\ totalFeesCollected > 0
    /\ \E i \in PositionIds : ~positions[i].isOpen
    /\ ClaimCollateralSum(PositionIds) + totalFeesCollected < totalDeposited
    /\ ClaimCollateralSum(OpenIds) > 0

\* The open positions among the first min(k, length) entries of the index of m.
BatchOpen(m, k) ==
    {i \in OpenIds : \E j \in 1..Len(marketPositions[m]) :
                        j <= k /\ marketPositions[m][j] = i}

\* C29: a payout that exceeds the engine's token balance aborts the whole call:
\* closePosition, liquidatePosition, settlePosition and withdrawFees end with the
\* token's insufficient-balance error, and so does a settleMarketPositions batch
\* whose payouts together exceed the balance; a call that ends with that error
\* changes no position, no balance and no fee accumulator, so the settlements made
\* earlier in the same batch are undone with it.
C29_OverdrawAborts ==
    [][LET op == lastCall'.op
           held == balanceOf[Engine]
           over == lastCall'.err = "ERC20InsufficientBalance"
       IN /\ over => /\ EngineState' = EngineState
                     /\ engineOwner' = engineOwner /\ feeRecipient' = feeRecipient
          /\ op = "closePosition" =>
                LET i == lastCall'.arg.positionId IN
                ((PositionAt(i).isOpen /\ positions[i].owner = lastCall'.sender
                  /\ ClaimPayout(i) > held) => over)
          /\ op = "liquidatePosition" =>
                LET i == lastCall'.arg.positionId IN
                ((PositionAt(i).isOpen /\ ClaimLiquidatable(i) /\ ClaimReward(i) > held)
                    => over)
          /\ op = "settlePosition" =>
                LET i == lastCall'.arg.positionId IN
                ((PositionAt(i).isOpen /\ ClaimResolved(i) /\ ClaimPayout(i) > held)
                    => over)
          /\ op = "withdrawFees" =>
                ((lastCall'.sender = engineOwner /\ totalFeesCollected > held) => over)
          /\ op = "settleMarketPositions" =>
                LET m == lastCall'.arg.marketId
                    k == lastCall'.arg.maxPositions
                IN ((markets[m].resolved /\ ClaimDueSum(BatchOpen(m, k), FALSE) > held)
                        => over)
      ]_vars

\* C29 witness: a batch has just failed on its second payout: the first entry of
\* the index is open and its payout is covered, the second entry's is not, and
\* both are still open.
C29_Witness ==
    /\ lastCall.op = "settleMarketPositions"
    /\ lastCall.err = "ERC20InsufficientBalance"
    /\ lastCall.arg.maxPositions >= 2
    /\ Len(marketPositions["m1"]) >= 2
    /\ positions[marketPositions["m1"][1]].isOpen
    /\ positions[marketPositions["m1"][2]].isOpen
    /\ ClaimPayout(marketPositions["m1"][1]) > 0
    /\ ClaimPayout(marketPositions["m1"][1]) <= balanceOf[Engine]
    /\ ClaimPayout(marketPositions["m1"][2]) <= balanceOf[Engine]

(***************************************************************************)
(* Claims about the owner functions of the engine                          *)
(***************************************************************************)
AdminOps == {"withdrawFees", "setFeeRecipient", "engineTransferOwnership"}

\* The address argument of a setFeeRecipient or transferOwnership call.
AddressArg(c) ==
    IF c.op = "setFeeRecipient" THEN c.arg.newRecipient
    ELSE IF c.op = "engineTransferOwnership" THEN c.arg.newOwner
    ELSE ZeroAddress

\* C30: withdrawFees, setFeeRecipient and transferOwnership of the engine called by
\* an account that is not the current owner end with the only-owner error and
\* change nothing; called by the owner, setFeeRecipient and transferOwnership
\* reject the zero address and otherwise store their argument; from the step in
\* which transferOwnership(newOwner) commits, newOwner is the owner, so the next
\* call of the previous owner meets the first case.
C30_OwnerOnly ==
    [][lastCall'.op \in AdminOps =>
        IF lastCall'.sender # engineOwner
        THEN /\ lastCall'.err = "Only owner"
             /\ EngineState' = EngineState
             /\ engineOwner' = engineOwner
             /\ feeRecipient' = feeRecipient
        ELSE /\ lastCall'.err # "Only owner"
             /\ lastCall'.op # "withdrawFees" =>
                    IF AddressArg(lastCall') = ZeroAddress
                    THEN /\ lastCall'.err = "Invalid address"
                         /\ EngineState' = EngineState
                         /\ engineOwner' = engineOwner
                         /\ feeRecipient' = feeRecipient
                    ELSE /\ lastCall'.err = "ok"
                         /\ EngineState' = EngineState
                         /\ IF lastCall'.op = "setFeeRecipient"
                            THEN /\ feeRecipient' = AddressArg(lastCall')
                                 /\ engineOwner' = engineOwner
                            ELSE /\ engineOwner' = AddressArg(lastCall')
                                 /\ feeRecipient' = feeRecipient
      ]_vars

\* C30 witness: the deployer, who has handed the ownership over, has just been
\* refused by withdrawFees while fees are waiting in the engine.
C30_Witness ==
    /\ lastCall.op = "withdrawFees"
    /\ lastCall.sender = Deployer
    /\ lastCall.err = "Only owner"
    /\ engineOwner # Deployer
    /\ engineOwner # ZeroAddress
    /\ totalFeesCollected > 0

(***************************************************************************)
(* Claims about calls made while a transfer is in flight                   *)
(***************************************************************************)
\* The step is the call in frame running on after its transfer has returned
\* without failing.
RunsOn ==
    /\ frame.active
    /\ frame' # frame
    /\ ~(~frame'.active /\ lastCall'.op = frame.op
         /\ lastCall'.err = "ERC20InsufficientBalance")

\* C27: closePosition, liquidatePosition, settlePosition, settleMarketPositions
\* and withdrawFees have made all their writes (positions closed and settled, the
\* fee accumulator zeroed) before their first external transfer, so that a call
\* that runs on after a transfer writes no position and no accumulator any more.
C27_WritesBeforeTransfer ==
    [][RunsOn => /\ positions' = positions
                 /\ totalFeesCollected' = totalFeesCollected]_vars

\* C28: while closePosition, liquidatePosition, settlePosition,
\* settleMarketPositions or withdrawFees waits in its token transfer, every call
\* the recipient makes to openPosition, closePosition, liquidatePosition,
\* settlePosition, settleMarketPositions, withdrawFees, setFeeRecipient or
\* transferOwnership fails.
C28_ReentrantCallsFail ==
    [][(frame.active /\ frame' = frame /\ lastCall' # lastCall)
            => lastCall'.err # "ok"]_vars


(***************************************************************************)
(* Positions that outlive their oracle data: the life of positions on      *)
(* market m1 with the block time moving, so that positions are valued,     *)
(* closed, liquidated and settled on data older than an hour.              *)
(***************************************************************************)
\* openPosition calls: <<sender, marketId, direction, collateral, leverage>>.
StaleCalls == {<<"alice", "m1", "LONG_YES", 80000999, 35001>>}

StaleNext ==
    \/ \E a \in Keepers, p \in LifeUpdates : updateMarketData(a, p)
    \/ \E a \in Keepers, p \in LifeResolutions : resolveMarketWithProof(a, p)
    \/ \E c \in StaleCalls : openPosition(c[1], c[2], c[3], c[4], c[5])
    \/ \E i \in LifeIds : closePosition(positions[i].owner, i)
    \/ \E a \in Keepers, i \in LifeIds : liquidatePosition(a, i)
    \/ \E a \in Keepers, i \in LifeIds : settlePosition(a, i)
    \/ AdvanceTime

StaleSpec == LifeInit /\ [][StaleNext]_vars

\* The outcome the claims give a closing call by sender a on the open position i:
\* the error it ends with, a function of the position, the oracle's prices and
\* resolved flag, and the engine's balance, not of the age of the data.
ClaimOutcome(op, a, i) ==
    LET due == IF op = "liquidatePosition" THEN ClaimReward(i) ELSE ClaimPayout(i) IN
    IF op = "closePosition" /\ a # positions[i].owner THEN "Not position owner"
    ELSE IF op = "liquidatePosition" /\ ~ClaimLiquidatable(i) THEN "Not liquidatable"
    ELSE IF op = "settlePosition" /\ ~ClaimResolved(i) THEN "Market not resolved"
    ELSE IF balanceOf[Engine] < due THEN "ERC20InsufficientBalance"
    ELSE "ok"

Written == {m \in MarketIdSet : markets[m].timestamp > 0}

\* C32: the market-id index holds each id at most once and exactly the ids of the
\* markets with timestamp > 0; getMarketCount() is the number of distinct markets
\* ever written, so it starts at zero, grows by one with the first successful
\* update of a market and stays as it is over every other call, repeated updates
\* of a known market included.
C32_IndexOfWrittenMarkets ==
    /\ [](/\ \A i, j \in 1..Len(marketIds) : marketIds[i] = marketIds[j] => i = j
          /\ {marketIds[i] : i \in 1..Len(marketIds)} = Written
          /\ getMarketCount = Cardinality(Written))
    /\ [][/\ Written \subseteq Written'
          /\ IF lastCall'.op = "updateMarketData" /\ lastCall'.err = "ok"
                 /\ lastCall'.arg.dto.marketId \notin Written
             THEN /\ marketIds' = Append(marketIds, lastCall'.arg.dto.marketId)
                  /\ getMarketCount' = getMarketCount + 1
             ELSE /\ marketIds' = marketIds
                  /\ getMarketCount' = getMarketCount
      ]_vars

\* C32 witness: both markets are in the index and a market already in it has just
\* been updated again, at a later time than its first record.
C32_Witness ==
    /\ lastCall.op = "updateMarketData"
    /\ lastCall.err = "ok"
    /\ getMarketCount = 2
    /\ marketIds[1] = lastCall.arg.dto.marketId
    /\ now > StartTime
    /\ markets[marketIds[1]].timestamp = now
    /\ markets[marketIds[2]].timestamp < now


(***************************************************************************)
(* The position index: the keeper feeds markets m1 and m2, both accounts   *)
(* open positions on both, with calls that fail among them, and owners     *)
(* close their positions.                                                  *)
(***************************************************************************)
IndexUpdates ==
    {GoodProof(7, "m1", "q1", 6500, 3500, 5, MIN_LIQUIDITY),
     GoodProof(7, "m2", "q2", 5000, 4500, 5, MIN_LIQUIDITY)}

\* openPosition calls: <<sender, marketId, direction, collateral, leverage>>.
IndexCalls ==
    {<<"alice", "m1", "LONG_YES", 50000000, 20000>>,
     <<"alice", "m2", "SHORT_YES", 50000000, MIN_LEVERAGE>>,
     <<"bob", "m2", "LONG_NO", 50000000, MAX_LEVERAGE>>,
     <<"bob", "m1", "SHORT_NO", MIN_COLLATERAL - 1, 20000>>,
     <<"alice", "m2", "LONG_YES", 50000000, MAX_LEVERAGE + 1>>}

IndexNext ==
    \/ \E a \in Keepers, p \in IndexUpdates : updateMarketData(a, p)
    \/ \E c \in IndexCalls : openPosition(c[1], c[2], c[3], c[4], c[5])
    \/ \E a \in Accounts, i \in 1..MaxPositions : closePosition(a, i)

IndexSpec == LifeInit /\ [][IndexNext]_vars

\* The number of entries of the list seq that equal x.
Occurrences(seq, x) == Cardinality({k \in 1..Len(seq) : seq[k] = x})

\* C33: position ids are contiguous from 1.  nextPositionId starts at 1; a
\* successful openPosition returns nextPositionId and advances it by one, so the
\* n-th success returns n; a failed call consumes no id; every assigned id is
\* exactly once in userPositions of its owner, exactly once in marketPositions of
\* its market and in no other list, and the lists hold assigned ids only.
C33_ContiguousIds ==
    /\ nextPositionId = 1
    /\ [](/\ \A i \in PositionIds :
                /\ positions[i].owner \in Accounts
                /\ positions[i].marketId \in MarketIdSet
                /\ \A a \in Accounts :
                       Occurrences(userPositions[a], i)
                           = IF a = positions[i].owner THEN 1 ELSE 0
                /\ \A m \in MarketIdSet :
                       Occurrences(marketPositions[m], i)
                           = IF m = positions[i].marketId THEN 1 ELSE 0
          /\ \A a \in Accounts : \A k \in 1..Len(userPositions[a]) :
                userPositions[a][k] \in PositionIds
          /\ \A m \in MarketIdSet : \A k \in 1..Len(marketPositions[m]) :
                marketPositions[m][k] \in PositionIds
          /\ \A i \in DOMAIN positions : i \notin PositionIds => positions[i] = EmptyPosition)
    /\ [][IF lastCall'.op = "openPosition" /\ lastCall'.err = "ok"
          THEN /\ lastCall'.ret = nextPositionId
               /\ nextPositionId' = nextPositionId + 1
               /\ positions'[nextPositionId].owner = lastCall'.sender
               /\ positions'[nextPositionId].marketId = lastCall'.arg.marketId
          ELSE /\ nextPositionId' = nextPositionId
               /\ userPositions' = userPositions
               /\ marketPositions' = marketPositions
      ]_vars

\* C33 witness: the second successful openPosition has just returned id 2, for an
\* owner and a market other than those of position 1, which is closed by now.
C33_Witness ==
    /\ lastCall.op = "openPosition"
    /\ lastCall.err = "ok"
    /\ lastCall.ret = 2
    /\ nextPositionId = 3
    /\ positions[1].marketId # positions[2].marketId
    /\ positions[1].owner # positions[2].owner
    /\ ~positions[1].isOpen
    /\ marketPositions[positions[1].marketId] = <<1>>
    /\ marketPositions[positions[2].marketId] = <<2>>
    /\ userPositions[positions[1].owner] = <<1>>
    /\ userPositions[lastCall.sender] = <<2>>


\* The proofs resolveMarketWithProof accepts as a resolution of market m for the
\* side o (TRUE for YES): verified, from the API, with the winning price at 9900
\* or above.
ResolutionProofs(m, o) ==
    {q \in OracleProofs \cup {GoodProof(3, m, "", 10000, 0, 0, 0),
                              GoodProof(3, m, "", 0, 10000, 0, 0)} :
        /\ q.valid
        /\ HasApiPrefix(q.url)
        /\ q.dto.marketId = m
        /\ q.dto.yesPrice >= 9900 \/ q.dto.noPrice >= 9900
        /\ (q.dto.yesPrice >= 9900) = o}

\* C34: emergencyResolve(marketId, outcome) is the owner's.  Called by any other
\* account it ends with the authorization error and changes nothing.  Called by
\* the owner it ends as resolveMarketWithProof ends, in the same state, on any
\* accepted proof resolving that market for that side (MarketNotFound when the
\* market has no record, MarketAlreadyResolved when it is resolved, else success),
\* and on success it leaves resolved, outcome, yesPrice and noPrice as the
\* proof-based resolution leaves them and every other field of the record, every
\* other record and the index as they were.
C34_EmergencyMatchesProof ==
    [][lastCall'.op = "emergencyResolve" =>
        LET m == lastCall'.arg.marketId
            o == lastCall'.arg.outcome
        IN
        /\ lastCall'.sender # owner =>
               /\ lastCall'.err = "OnlyOwner"
               /\ markets' = markets
        /\ lastCall'.sender = owner =>
               /\ ResolutionProofs(m, o) # {}
               /\ \A q \in ResolutionProofs(m, o) :
                      /\ lastCall'.err = resolveMarketWithProofError(q)
                      /\ lastCall'.err = "ok" =>
                            LET byProof == ResolvedMarketData(markets[m],
                                                              ResolutionOutcome(q.dto))
                            IN
                            /\ markets'[m].resolved = byProof.resolved
                            /\ markets'[m].outcome = byProof.outcome
                            /\ markets'[m].yesPrice = byProof.yesPrice
                            /\ markets'[m].noPrice = byProof.noPrice
                            /\ markets'[m] = [markets[m] EXCEPT
                                                 !.resolved = markets'[m].resolved,
                                                 !.outcome = markets'[m].outcome,
                                                 !.yesPrice = markets'[m].yesPrice,
                                                 !.noPrice = markets'[m].noPrice]
               /\ lastCall'.err # "ok" => markets' = markets
        /\ \A x \in MarketIdSet \ {m} : markets'[x] = markets[x]
        /\ OracleIndex' = OracleIndex
        /\ owner' = owner
      ]_vars

\* C34 witness: the owner has just resolved for NO, by the emergency path, a market
\* whose record was written by a proof; the pinned prices are those of a proof-based
\* NO resolution.
C34_Witness ==
    /\ lastCall.op = "emergencyResolve"
    /\ lastCall.sender = owner
    /\ lastCall.err = "ok"
    /\ ~lastCall.arg.outcome
    /\ markets[lastCall.arg.marketId].resolved
    /\ ~markets[lastCall.arg.marketId].outcome
    /\ markets[lastCall.arg.marketId].yesPrice = 0
    /\ markets[lastCall.arg.marketId].noPrice = 10000
    /\ markets[lastCall.arg.marketId].votingRound # 0


\* The calls that settle: settlePosition and settleMarketPositions.
SettlingOps == {"settlePosition", "settleMarketPositions"}

\* C35: settled implies not open, for every position.  A position becomes settled
\* exactly when settlePosition or settleMarketPositions closes it; a position that
\* closePosition or liquidatePosition closes has settled = false, and the flag of a
\* closed position never changes afterwards, whether its market is or becomes
\* resolved or not.
C35_SettledFlag ==
    /\ [](\A i \in DOMAIN positions : positions[i].settled => ~positions[i].isOpen)
    /\ [][\A i \in DOMAIN positions :
            /\ (positions[i].isOpen /\ ~positions'[i].isOpen) =>
                   /\ lastCall'.op \in ClosingOps
                   /\ positions'[i].settled = (lastCall'.op \in SettlingOps)
            /\ (i \in PositionIds /\ ~positions[i].isOpen) =>
                   /\ ~positions'[i].isOpen
                   /\ positions'[i].settled = positions[i].settled
            /\ positions'[i].isOpen => ~positions'[i].settled
      ]_vars

\* C35 witness: a batch has just settled position 2 on a resolved market on which
\* position 1, closed by its owner, stays unsettled.
C35_Witness ==
    /\ lastCall.op = "settleMarketPositions"
    /\ lastCall.err = "ok"
    /\ lastCall.ret = 1
    /\ lastCall.arg.maxPositions = 2
    /\ nextPositionId = 3
    /\ positions[1].marketId = positions[2].marketId
    /\ markets[positions[1].marketId].resolved
    /\ ~positions[1].isOpen /\ ~positions[1].settled
    /\ ~positions[2].isOpen /\ positions[2].settled


\* C37: in every reachable state the engine's token balance is at least
\* totalFeesCollected plus the collateral of the open positions, so that
\* withdrawFees and the return of every open position's own collateral can be
\* paid.
C37_BalanceBacksOpenPositions ==
    balanceOf[Engine] >= totalFeesCollected + ClaimCollateralSum(OpenIds)


\* What calling settlePosition on the open positions among ids[from..upto], in
\* index order, leaves of the positions and balances st: each call pays max(0,
\* collateral + pnl) at the oracle's price to the owner and marks the position
\* closed and settled, and a call the engine cannot pay fails on its own and
\* changes nothing.
RECURSIVE ClaimSequential(_, _, _, _)
ClaimSequential(ids, from, upto, st) ==
    IF from > upto THEN st
    ELSE LET i == ids[from]
             p == st.positions[i]
             value == ClaimPnL(p, SidePrice(p.marketId, p.direction))
             due == IF p.collateral + value > 0 THEN p.collateral + value ELSE 0
         IN IF ~p.isOpen \/ st.balanceOf[Engine] < due
            THEN ClaimSequential(ids, from + 1, upto, st)
            ELSE ClaimSequential(ids, from + 1, upto,
                     [positions |-> [st.positions EXCEPT ![i].isOpen = FALSE,
                                                         ![i].settled = TRUE],
                      balanceOf |-> [st.balanceOf EXCEPT ![Engine] = @ - due,
                                                         ![p.owner] = @ + due],
                      settledCount |-> st.settledCount + 1])

\* C38: on a resolved market settleMarketPositions(marketId, k) leaves the
\* positions and token balances, and returns the settled count, that calling
\* settlePosition in index order on each still open position among the first
\* min(k, length) entries of the market's list leaves; entries beyond index k - 1
\* are untouched.
C38_BatchMatchesSequential ==
    [][(/\ lastCall'.op = "settleMarketPositions"
        /\ markets[lastCall'.arg.marketId].resolved) =>
          LET ids == marketPositions[lastCall'.arg.marketId]
              k == lastCall'.arg.maxPositions
              upto == IF k < Len(ids) THEN k ELSE Len(ids)
              one == ClaimSequential(ids, 1, upto,
                                     [positions |-> positions, balanceOf |-> balanceOf,
                                      settledCount |-> 0])
          IN
          /\ positions' = one.positions
          /\ balanceOf' = one.balanceOf
          /\ lastCall'.ret = one.settledCount
          /\ \A j \in (upto + 1)..Len(ids) : positions'[ids[j]] = positions[ids[j]]
      ]_vars


(***************************************************************************)
(* FdcKeeper: what a cycle reads, builds and submits                       *)
(***************************************************************************)
\* A market as the Polymarket CLOB API lists it; yesPrice and noPrice stand for
\* tokens[0].price * 10000 and tokens[1].price * 10000.
ApiMarket(slug, question, active, closed, yes, no) ==
    [market_slug |-> slug, question |-> question, active |-> active,
     closed |-> closed, yesPrice |-> yes, noPrice |-> no]

\* The value of the oracle's mapping for a slug: the record, or the default for a
\* market never written.
StoredMarket(slug) ==
    IF slug \in DOMAIN markets THEN markets[slug] ELSE EmptyMarketData

\* The jq filter (. + 500) | . - (. % 1000) on price * 10000.
RoundedBps(price) == (price + 500) - ((price + 500) % 1000)

\* The payload the transform of buildPostProcessJq makes of an API market.
buildPostProcessJq(market) ==
    MarketDTO(market.market_slug, market.question, RoundedBps(market.yesPrice),
              RoundedBps(market.noPrice), 1000000, 1000000)

\* The proof the DA layer returns for the keeper's request on an API market, with
\* the verdict FdcVerification will give on it.
retrieveProofFromDALayer(market, accepted) ==
    Proof(accepted, UrlMarket, 7, now, buildPostProcessJq(market))

\* for (const market of markets) in fetchMarketsNeedingResolution: the test a
\* listed market passes to be pushed.
needsResolution(market) ==
    /\ market.closed
    /\ market.yesPrice >= 9900 \/ market.noPrice >= 9900
    /\ StoredMarket(market.market_slug).timestamp # 0
    /\ ~StoredMarket(market.market_slug).resolved

\* for (const market of markets) in fetchMarketsNeedingUpdate.
needsUpdate(market) ==
    /\ market.active /\ ~market.closed
    /\ \/ StoredMarket(market.market_slug).timestamp = 0
       \/ now - StoredMarket(market.market_slug).timestamp > maxStalenessSeconds

\* The slugs of a list of API markets.
Slugs(list) == [k \in 1..Len(list) |-> list[k].market_slug]

\* list.slice(0, config.maxMarketsPerCycle)
Slice(list) ==
    SubSeq(list, 1, IF Len(list) < maxMarketsPerCycle THEN Len(list)
                    ELSE maxMarketsPerCycle)

\* A loop that a failed market ends: the rest of the phase is skipped.
AfterAttempt_StopOnFailure(cycle, success) ==
    LET counted == [cycle EXCEPT !.ok = IF success THEN @ + 1 ELSE @,
                                 !.failed = IF success THEN @ ELSE @ + 1,
                                 !.i = @ + 1,
                                 !.waiting = FALSE]
    IN IF success /\ counted.i <= Len(counted.todo) THEN counted
       ELSE IF cycle.pc = "resolve" THEN [counted EXCEPT !.pc = "fetchUpdate"]
       ELSE IdleCycle

\* The cycle after resolveMarketViaFdc or updateMarketViaFdc has returned for
\* todo[i]: the market is counted as resolved/updated or as failed, and the loop
\* goes on to the next market, runCycle to the next phase, or to its end.
AfterAttempt(cycle, success) ==
    LET counted == [cycle EXCEPT !.ok = IF success THEN @ + 1 ELSE @,
                                 !.failed = IF success THEN @ ELSE @ + 1,
                                 !.i = @ + 1,
                                 !.waiting = FALSE]
    IN IF counted.i <= Len(counted.todo) THEN counted
       ELSE IF cycle.pc = "resolve" THEN [counted EXCEPT !.pc = "fetchUpdate"]
       ELSE IdleCycle

\* start(): after initialize, the first runCycle begins; setInterval is called
\* when it has returned.
start ==
    /\ ~intervalSet
    /\ \A c \in Slots : cycles[c].pc = "idle"
    /\ cycles' = [cycles EXCEPT ![1] = [IdleCycle EXCEPT !.pc = "fetchResolution"]]
    /\ UNCHANGED <<intervalSet, now, oracleVars, engineVars, tokenVars, lastCall>>

\* The callback of setInterval: the interval has elapsed and a new runCycle
\* begins in slot c, the lowest free one.
intervalCallback(c) ==
    /\ intervalSet
    /\ cycles[c].pc = "idle"
    /\ \A d \in Slots : d < c => cycles[d].pc # "idle"
    /\ cycles' = [cycles EXCEPT ![c] = [IdleCycle EXCEPT !.pc = "fetchResolution"]]
    /\ UNCHANGED <<intervalSet, now, oracleVars, engineVars, tokenVars, lastCall>>

\* Phase 1 of runCycle begins: the API's listing is filtered and cut.  A fetch
\* that fails gives the empty list.
fetchMarketsNeedingResolution(c, listing) ==
    /\ cycles[c].pc = "fetchResolution"
    /\ LET todo == Slugs(Slice(SelectSeq(listing, needsResolution))) IN
       cycles' = [cycles EXCEPT ![c] =
                     [pc |-> IF todo = <<>> THEN "fetchUpdate" ELSE "resolve",
                      todo |-> todo, i |-> 1, ok |-> 0, failed |-> 0,
                      waiting |-> FALSE]]
    /\ UNCHANGED <<intervalSet, now, oracleVars, engineVars, tokenVars, lastCall>>

\* Phase 2 of runCycle begins; with nothing to update the cycle is complete.
fetchMarketsNeedingUpdate(c, listing) ==
    /\ cycles[c].pc = "fetchUpdate"
    /\ LET todo == Slugs(Slice(SelectSeq(listing, needsUpdate))) IN
       /\ cycles' = [cycles EXCEPT ![c] =
                        IF todo = <<>> THEN IdleCycle
                        ELSE [pc |-> "update", todo |-> todo, i |-> 1, ok |-> 0,
                              failed |-> 0, waiting |-> FALSE]]
       /\ intervalSet' = (intervalSet \/ todo = <<>>)
    /\ UNCHANGED <<now, oracleVars, engineVars, tokenVars, lastCall>>

\* Steps 1 and 2 of resolveMarketViaFdc and updateMarketViaFdc for todo[i]: the
\* request is prepared and submitted to the FdcHub and the keeper waits for the
\* round, or one of the calls throws and the market is counted as failed.
submitAttestationRequest(c, thrown) ==
    /\ cycles[c].pc \in {"resolve", "update"}
    /\ ~cycles[c].waiting
    /\ cycles' = [cycles EXCEPT ![c] = IF thrown THEN AfterAttempt(@, FALSE)
                                       ELSE [@ EXCEPT !.waiting = TRUE]]
    /\ intervalSet' = (intervalSet \/ cycles'[c].pc = "idle")
    /\ UNCHANGED <<now, oracleVars, engineVars, tokenVars, lastCall>>

\* Steps 3 to 5 of resolveMarketViaFdc: the round is final, the proof is
\* retrieved (or is not: retrieved = FALSE) and submitted to the oracle from the
\* keeper's wallet; the market counts as resolved when the transaction commits.
resolveMarketViaFdc(c, wallet, market, retrieved, accepted) ==
    LET proof == retrieveProofFromDALayer(market, accepted)
        err == IF retrieved THEN resolveMarketWithProofError(proof)
               ELSE "Failed to retrieve proof from DA layer"
        id == market.market_slug
    IN
    /\ cycles[c].pc = "resolve"
    /\ cycles[c].waiting
    /\ id = cycles[c].todo[cycles[c].i]
    /\ IF retrieved
       THEN lastCall' = Call("resolveMarketWithProof", wallet, proof, err, 0)
       ELSE UNCHANGED lastCall
    /\ IF err = "ok"
       THEN markets' = [markets EXCEPT ![id] =
                [ResolvedMarketData(markets[id], ResolutionOutcome(proof.dto))
                    EXCEPT !.votingRound = proof.votingRound]]
       ELSE UNCHANGED markets
    /\ cycles' = [cycles EXCEPT ![c] = AfterAttempt(@, err = "ok")]
    /\ UNCHANGED <<intervalSet, now, owner, marketIds, marketExists, engineVars,
                   tokenVars>>

\* Steps 3 to 5 of updateMarketViaFdc; the end of the last market's attempt is
\* the end of the cycle.
updateMarketViaFdc(c, wallet, market, retrieved, accepted) ==
    LET proof == retrieveProofFromDALayer(market, accepted)
        err == IF retrieved THEN updateMarketDataError(proof)
               ELSE "Failed to retrieve proof from DA layer"
    IN
    /\ cycles[c].pc = "update"
    /\ cycles[c].waiting
    /\ market.market_slug = cycles[c].todo[cycles[c].i]
    /\ IF retrieved
       THEN lastCall' = Call("updateMarketData", wallet, proof, err, 0)
       ELSE UNCHANGED lastCall
    /\ IF err = "ok"
       THEN _storeMarketData(proof.dto, proof, wallet) /\ UNCHANGED owner
       ELSE UNCHANGED oracleVars
    /\ cycles' = [cycles EXCEPT ![c] = AfterAttempt(@, err = "ok")]
    /\ intervalSet' = (intervalSet \/ cycles'[c].pc = "idle")
    /\ UNCHANGED <<now, engineVars, tokenVars>>

(***************************************************************************)
(* The keeper at work: another account keeps market m1 on the oracle, the  *)
(* block time moves, and the keeper runs its cycles over what the API      *)
(* lists.  In CycleSpec the interval elapses between cycles only; in       *)
(* OverlapSpec it elapses whenever it does.                                *)
(***************************************************************************)
ApiM1Active == ApiMarket("m1", "q1", TRUE, FALSE, 6200, 3800)
ApiM1Drift == ApiMarket("m1", "q1", TRUE, FALSE, 6500, 3500)
ApiM1Closed == ApiMarket("m1", "q1", FALSE, TRUE, 9950, 50)
ApiM2Active == ApiMarket("m2", "q2", TRUE, FALSE, 5000, 5000)

\* Slugs of markets the oracle has never seen: one more than a phase takes.
NewSlugs == <<"x1", "x2", "x3", "x4", "x5", "x6", "x7", "x8", "x9", "x10", "x11">>
ApiNew(k) == ApiMarket(NewSlugs[k], "q", TRUE, FALSE, 5000, 5000)

\* What the API may answer for a slug when the attestation is made.
ApiMarkets ==
    {ApiM1Active, ApiM1Drift, ApiM1Closed, ApiM2Active}
        \cup {ApiNew(k) : k \in 1..Len(NewSlugs)}

\* The listings the two fetches may get.
CycleListings ==
    {<<>>,
     <<ApiM1Active, ApiM2Active>>,
     <<ApiM2Active, ApiM1Closed>>,
     [k \in 1..Len(NewSlugs) |-> ApiNew(k)] \o <<ApiM1Active>>}

OverlapListings == {<<>>, <<ApiM1Closed>>, <<ApiM1Active>>}

\* No runCycle is in progress.
Quiet == \A c \in Slots : cycles[c].pc = "idle"

\* One step of a cycle in progress, over the listings L.
CycleStep(L) ==
    \/ \E c \in Slots, l \in L : fetchMarketsNeedingResolution(c, l)
    \/ \E c \in Slots, thrown \in BOOLEAN : submitAttestationRequest(c, thrown)
    \/ \E c \in Slots, a \in Keepers, m \in ApiMarkets, r, v \in BOOLEAN :
            resolveMarketViaFdc(c, a, m, r, v)
    \/ \E c \in Slots, l \in L : fetchMarketsNeedingUpdate(c, l)
    \/ \E c \in Slots, a \in Keepers, m \in ApiMarkets, r, v \in BOOLEAN :
            updateMarketViaFdc(c, a, m, r, v)

CycleNext ==
    \/ \E p \in PoolUpdates : updateMarketData(Deployer, p)
    \/ AdvanceTime
    \/ start
    \/ Quiet /\ \E c \in Slots : intervalCallback(c)
    \/ \E c \in Slots, l \in CycleListings : fetchMarketsNeedingResolution(c, l)
    \/ \E c \in Slots, thrown \in BOOLEAN : submitAttestationRequest(c, thrown)
    \/ \E c \in Slots, a \in Keepers, m \in ApiMarkets, r, v \in BOOLEAN :
            resolveMarketViaFdc(c, a, m, r, v)
    \/ \E c \in Slots, l \in CycleListings : fetchMarketsNeedingUpdate(c, l)
    \/ \E c \in Slots, a \in Keepers, m \in ApiMarkets, r, v \in BOOLEAN :
            updateMarketViaFdc(c, a, m, r, v)

\* The event loop runs every continuation whose awaited call has returned, the
\* calls return, and the timer keeps firing.
CycleSpec ==
    /\ LifeInit
    /\ [][CycleNext]_vars
    /\ WF_vars(CycleStep(CycleListings))
    /\ WF_vars(start)
    /\ WF_vars(Quiet /\ \E c \in Slots : intervalCallback(c))

OverlapNext ==
    \/ \E p \in PoolUpdates : updateMarketData(Deployer, p)
    \/ AdvanceTime
    \/ start
    \/ \E c \in Slots : intervalCallback(c)
    \/ \E c \in Slots, l \in OverlapListings : fetchMarketsNeedingResolution(c, l)
    \/ \E c \in Slots, thrown \in BOOLEAN : submitAttestationRequest(c, thrown)
    \/ \E c \in Slots, a \in Keepers, m \in ApiMarkets, r, v \in BOOLEAN :
            resolveMarketViaFdc(c, a, m, r, v)
    \/ \E c \in Slots, l \in OverlapListings : fetchMarketsNeedingUpdate(c, l)
    \/ \E c \in Slots, a \in Keepers, m \in ApiMarkets, r, v \in BOOLEAN :
            updateMarketViaFdc(c, a, m, r, v)

OverlapSpec == LifeInit /\ [][OverlapNext]_vars


\* The phases of a cycle in the order runCycle goes through them, and the moves
\* between them.
PhaseMoves ==
    {<<"idle", "fetchResolution">>, <<"fetchResolution", "resolve">>,
     <<"fetchResolution", "fetchUpdate">>, <<"resolve", "fetchUpdate">>,
     <<"fetchUpdate", "update">>, <<"fetchUpdate", "idle">>, <<"update", "idle">>}

\* The attempt of cycle c on its current market ends in this step.
AttemptEnds(c) ==
    /\ cycles[c].pc \in {"resolve", "update"}
    /\ \/ cycles'[c].pc # cycles[c].pc
       \/ cycles'[c].i # cycles[c].i

ClaimFreshAfter(id, maxAge) ==
    /\ id \in DOMAIN markets'
    /\ markets'[id].timestamp # 0
    /\ now' - markets'[id].timestamp <= maxAge

\* C39: a payload of the keeper's transform whose two rounded prices are each at
\* most 10000 and sum to a value in [9500, 10500] passes every validation of
\* updateMarketData: when the verifier accepts the proof, the keeper's update of a
\* stale or unknown market commits and isMarketDataFresh(marketId, 3600) is true
\* afterwards.
C39_KeeperPayloadAccepted ==
    [][(/\ \E c \in Slots : cycles[c].pc = "update" /\ AttemptEnds(c)
        /\ lastCall' # lastCall
        /\ lastCall'.op = "updateMarketData"
        /\ lastCall'.sender \in Keepers
        /\ lastCall'.arg.valid
        /\ lastCall'.arg.dto.yesPrice <= 10000
        /\ lastCall'.arg.dto.noPrice <= 10000
        /\ lastCall'.arg.dto.yesPrice + lastCall'.arg.dto.noPrice >= 9500
        /\ lastCall'.arg.dto.yesPrice + lastCall'.arg.dto.noPrice <= 10500)
       => /\ lastCall'.err = "ok"
          /\ ClaimFreshAfter(lastCall'.arg.dto.marketId, 3600)]_vars


\* The cycles in progress.
Running == {c \in Slots : cycles[c].pc # "idle"}

\* C40: at most one keeper cycle is in progress at any time, so the keeper never
\* has two attempts for the same market under way: two cycles waiting for round
\* finalization or proof retrieval on the same market.
C40_OneCycleAtATime ==
    /\ Cardinality(Running) <= 1
    /\ \A c, d \in Running :
          (/\ c # d
           /\ cycles[c].pc \in {"resolve", "update"}
           /\ cycles[d].pc \in {"resolve", "update"}
           /\ cycles[c].waiting /\ cycles[d].waiting)
          => cycles[c].todo[cycles[c].i] # cycles[d].todo[cycles[d].i]

====
